---- MODULE Spec2Model ----
(***************************************************************************)
(* Batched classification pipeline of the audio sample manager             *)
(* (electron-audio-manager/trash/quick_classifier.py; the deep classifier  *)
(* in trash/deep_classifier.py has the same scheduler).                    *)
(*                                                                         *)
(* One behaviour is one call of process_files on the module as loaded: the *)
(* main thread walks the batches, a ThreadPoolExecutor per batch runs      *)
(* process_single_file for each file of the batch, and the workers report  *)
(* through the module-level progress structure under _progress_lock.       *)
(*                                                                         *)
(* A file is identified by its (1-based) position in input_files.  What    *)
(* process_single_file does with a path depends on the path only through   *)
(* its kind:                                                               *)
(*   "ok"     - a path string for which every statement succeeds;          *)
(*   "fail"   - a path for which a statement inside the try block raises   *)
(*              (os.makedirs on an unusable output directory, a bytes      *)
(*              path at str.replace);                                      *)
(*   "nonstr" - an entry that is no str, bytes or PathLike (a JSON null or *)
(*              number of the config file), for which os.path.basename     *)
(*              raises TypeError.                                          *)
(***************************************************************************)
EXTENDS Integers, Sequences, FiniteSets, TLC

\* ----------------------------------------------------------------- bounds
MaxFiles == 4
MaxBatchSize == 3
MaxWorkers == 2
MaxNegative == 2
MaxTime == 1

FileKinds == {"ok", "fail", "nonstr"}
\* Python's None for an optional argument: the empty tuple; Some(v) is a
\* given value.
None == <<>>
Some(v) == <<v>>
NoException == "none"
NoResults == [unset |-> TRUE]

VARIABLES
    input_files,      \* argument: sequence of file kinds
    batch_size,       \* argument
    max_workers,      \* argument
    pc,               \* position of the main thread in process_files
    raised,           \* exception that left process_files, if any
    results,          \* the results dictionary, unset before the call
    processed_files,  \* local of process_files
    failed_files,     \* local of process_files
    num_batches,      \* local of process_files
    batch_num,        \* loop variable (0-based)
    batch_files,      \* current slice of input_files (as positions)
    batch_results,    \* file results collected for the current batch
    submitted,        \* number of files of the batch handed to the executor
    collected,        \* positions whose future the fan-in loop has consumed
    nthreads,         \* worker threads of the current executor
    task,             \* per file: the state of its work item / future
    progress,         \* module-level _progress_data
    batches           \* history: every batch_files slice formed so far

vars == <<input_files, batch_size, max_workers, pc, raised, results,
          processed_files, failed_files, num_batches, batch_num, batch_files,
          batch_results, submitted, collected, nthreads, task, progress,
          batches>>

\* ------------------------------------------------------ python primitives
Min(a, b) == IF a < b THEN a ELSE b
Max(a, b) == IF a > b THEN a ELSE b

\* Python's // : floor division, also for a negative divisor.
FloorDiv(a, b) == IF b > 0 THEN a \div b ELSE (0 - a) \div (0 - b)

\* Python's s[lo:hi] on a list: negative bounds count from the end, bounds
\* are clamped to the list, an empty range gives the empty list.
NormIndex(i, n) == IF i < 0 THEN Max(i + n, 0) ELSE Min(i, n)

PySlice(s, lo, hi) ==
    LET n == Len(s)
        a == NormIndex(lo, n)
        b == NormIndex(hi, n)
    IN  IF b > a THEN SubSeq(s, a + 1, b) ELSE <<>>

\* dict.update: keys of b override or extend those of a.
DictUpdate(a, b) ==
    [k \in (DOMAIN a) \cup (DOMAIN b) |-> IF k \in DOMAIN b THEN b[k] ELSE a[k]]

\* a / b * 100 kept exact as a fraction <<numerator, denominator>>.
Percent(a, b) == <<a * 100, b>>

Positions(files) == [i \in 1..Len(files) |-> i]

\* os.path.basename(file_path) raises TypeError unless the path is a str,
\* bytes or PathLike.
BasenameRaises(kind) == kind = "nonstr"

\* --------------------------------------------------------- progress state
InitialProgress ==
    [total_files |-> 0, processed_files |-> 0, current_batch |-> 0,
     total_batches |-> 0, batch_progress |-> <<0, 1>>,
     overall_progress |-> <<0, 1>>, status_message |-> <<"Initializing...", 0>>,
     errors |-> <<>>]

ResetProgress(total, nb) ==
    [total_files |-> total, processed_files |-> 0, current_batch |-> 0,
     total_batches |-> nb, batch_progress |-> <<0, 1>>,
     overall_progress |-> <<0, 1>>,
     status_message |-> <<"Starting processing...", 0>>, errors |-> <<>>]

\* _update_progress: the whole body runs under _progress_lock.
UpdateProgress(p, increment, bnum, message, error) ==
    LET p1 == IF increment > 0
              THEN [p EXCEPT !.processed_files = @ + increment] ELSE p
        p2 == IF bnum # None THEN [p1 EXCEPT !.current_batch = bnum[1]]
              ELSE p1
        p3 == IF message # None THEN [p2 EXCEPT !.status_message = message[1]]
              ELSE p2
        p4 == IF error # None THEN [p3 EXCEPT !.errors = Append(@, error[1])]
              ELSE p3
        p5 == IF p4.total_files > 0
              THEN [p4 EXCEPT !.overall_progress =
                        Percent(p4.processed_files, p4.total_files)]
              ELSE p4
    IN  IF p5.total_batches > 0
        THEN [p5 EXCEPT !.batch_progress =
                  Percent(p5.current_batch, p5.total_batches)]
        ELSE p5

\* ------------------------------------------------------------ the results
\* variant: success starts false, to be set once the run has no failure.
InitResultsPessimistic(n, bs, mw) ==
    [success |-> FALSE, samples |-> <<>>, errors |-> <<>>,
     stats |-> [total_files |-> n, processed_files |-> 0, failed_files |-> 0,
                total_time |-> 0, batch_size |-> bs, max_workers |-> mw]]

InitResults(n, bs, mw) ==
    [success |-> TRUE, samples |-> <<>>, errors |-> <<>>,
     stats |-> [total_files |-> n, processed_files |-> 0, failed_files |-> 0,
                total_time |-> 0, batch_size |-> bs, max_workers |-> mw]]

\* files_per_second = processed_files / total_time if total_time > 0 else 0
FilesPerSecond(processed, time) ==
    IF time > 0 THEN <<processed, time>> ELSE <<0, 1>>

FinalStats(processed, failed, time, nb) ==
    [processed_files |-> processed, failed_files |-> failed,
     total_time |-> time, files_per_second |-> FilesPerSecond(processed, time),
     num_batches |-> nb]

\* variant: the batch count rounded down, the remainder forgotten.
NumBatchesFloor(total, bs) == FloorDiv(total, bs)

\* num_batches = (total_files + batch_size - 1) // batch_size
NumBatches(total, bs) == FloorDiv(total + bs - 1, bs)

\* variant: the slice end taken inclusive, one file short.
BatchSliceShort(files, bnum, bs) ==
    LET batch_start == bnum * bs
        batch_end == Min(batch_start + bs, Len(files)) - 1
    IN  IF batch_end > batch_start
        THEN PySlice(Positions(files), batch_start, batch_end) ELSE <<>>

\* batch_files = input_files[batch_start:batch_end]
BatchSlice(files, bnum, bs) ==
    LET batch_start == bnum * bs
        batch_end == Min(batch_start + bs, Len(files))
    IN  PySlice(Positions(files), batch_start, batch_end)

\* variant: every file of the batch counted, failed or not.
ProcessedInBatchAll(files, res) == Len(files)

\* processed_in_batch = len(batch_files) - #{r in batch_results: not success}
ProcessedInBatch(files, res) ==
    Len(files) - Cardinality({i \in 1..Len(res) : ~res[i].success})

\* -------------------------------------------------------------- the tasks
NewTask == [st |-> "new", batch |-> 0, file_num |-> 0]

Running == {f \in DOMAIN task : task[f].st = "running"}
Queued == {f \in DOMAIN task : task[f].st = "queued"}
Finished(f) == task[f].st \in {"ok", "fail", "exc"}

\* variant: one thread per submitted work item, no pool limit.
AdjustThreadCountUnbounded(n, mw) == n + 1

\* ThreadPoolExecutor.submit starts another worker thread only while the
\* pool has fewer than max_workers threads.
AdjustThreadCount(n, mw) == IF n < mw THEN n + 1 ELSE n

\* variant: the loop moves on without waiting for the batch.
BatchNotJoined == TRUE

\* the fan-in loop and the exit of the with block both wait for every
\* submitted work item of the batch.
BatchJoined == \A i \in 1..Len(batch_files) : batch_files[i] \in collected

\* =============================================== similarity search: state
\* (electron-audio-manager/python/find_similar_samples.py)
VARIABLES
    reference,        \* argument reference_path: [form, file], and its features
    sample_files,     \* the glob result: sequence of candidate files
    max_results,      \* argument
    sim_pc,           \* position in find_similar_samples
    scan_idx,         \* number of sample_files already scanned
    reference_vector, \* create_feature_vector(reference_features)
    similarity_scores,\* the list built by the scan loop
    sim_result,       \* the returned list
    sim_log           \* history: what the loop did with each candidate

simvars == <<reference, sample_files, max_results, sim_pc, scan_idx,
             reference_vector, similarity_scores, sim_result, sim_log>>

NoVector == [raises |-> FALSE, v |-> <<>>, n2 |-> 0]
NoReference == [form |-> "abs", file |-> "none"]

\* the similarity search is not running.
SimIdle ==
    /\ reference = NoReference
    /\ sample_files = <<>>
    /\ max_results = 0
    /\ sim_pc = "idle"
    /\ scan_idx = 0
    /\ reference_vector = NoVector
    /\ similarity_scores = <<>>
    /\ sim_result = <<>>
    /\ sim_log = <<>>

\* the state outside the batch scheduler, which its actions leave alone.
\* ============================================== filename classifier: state
\* (electron-audio-manager/python/quick_classifier.py)
VARIABLES file_path, classification, fn_pc

fnvars == <<file_path, classification, fn_pc>>

\* the defaults classify_by_filename starts from.
DefaultClassification ==
    [type |-> "other", subtype |-> "other", mood |-> "neutral"]

FnIdle ==
    /\ file_path = <<>>
    /\ classification = DefaultClassification
    /\ fn_pc = "idle"

\* ============================================ shared progress: state
\* (_progress_data and _progress_lock of trash/quick_classifier.py, with the
\* steps of the threads that use them)
VARIABLES progress_data, progress_lock, thread, run, reported

pgvars == <<progress_data, progress_lock, thread, run, reported>>

\* the two calls of process_files that may overlap
Runs == {1, 2}
MaxRunFiles == 2

\* a thread is the main thread of a run (file 0) or the worker of one file.
ThreadIds == [run : Runs, file : 0..MaxRunFiles]
NoThread == [run |-> 0, file |-> 0]
MainThread(r) == [run |-> r, file |-> 0]
Worker(r, i) == [run |-> r, file |-> i]

IdleThread == [pc |-> "idle", tmp |-> 0, todo |-> <<>>]
NewRun == [total_files |-> 0, batch_size |-> 1, num_batches |-> 0,
           batch_num |-> 0, phase |-> "new"]

PgIdle ==
    /\ progress_data = InitialProgress
    /\ progress_lock = NoThread
    /\ thread = [t \in ThreadIds |-> IdleThread]
    /\ run = [r \in Runs |-> NewRun]
    /\ reported = 0

\* =============================================== sample ids: state
\* (the loop of process_files in python/quick_classifier.py)
VARIABLES id_files, id_samples, id_pc

idvars == <<id_files, id_samples, id_pc>>

IdIdle ==
    /\ id_files = <<>>
    /\ id_samples = <<>>
    /\ id_pc = "idle"

\* ====================================== classification vector: state
\* (create_feature_vector of python/classify_audio.py)
VARIABLES cv_features, cv_vector, cv_pc

cvvars == <<cv_features, cv_vector, cv_pc>>

CvIdle ==
    /\ cv_features = <<>>
    /\ cv_vector = <<>>
    /\ cv_pc = "idle"

\* ============================================ deep classifiers: state
\* (process_files of python/deep_classifier.py and process_single_file of
\* trash/deep_classifier.py)
VARIABLES dp_variant, dp_librosa, dp_deep_analysis, dp_file, dp_load, dp_sample,
          dp_pc

dpvars == <<dp_variant, dp_librosa, dp_deep_analysis, dp_file, dp_load,
            dp_sample, dp_pc>>

NoLoad == [raises |-> TRUE, features |-> <<>>]
NoSample == [success |-> FALSE]

DpIdle ==
    /\ dp_variant = "python"
    /\ dp_librosa = FALSE
    /\ dp_deep_analysis = FALSE
    /\ dp_file = <<>>
    /\ dp_load = NoLoad
    /\ dp_sample = NoSample
    /\ dp_pc = "idle"

\* ========================================== librosa classifier: state
\* (analyze_and_classify_sample of attached_assets/librosa_classifier.py)
VARIABLES lb_file, lb_features, lb_result, lb_pc

lbvars == <<lb_file, lb_features, lb_result, lb_pc>>

LbIdle ==
    /\ lb_file = <<>>
    /\ lb_features = <<>>
    /\ lb_result = [raises |-> FALSE]
    /\ lb_pc = "idle"

\* the state of the components added after the first three.
morevars == <<pgvars, idvars, cvvars, dpvars, lbvars>>
MoreIdle == PgIdle /\ IdIdle /\ CvIdle /\ DpIdle /\ LbIdle

nonbatch == <<simvars, fnvars, morevars>>

\* everything outside the batch scheduler is at rest.
NonBatchIdle == SimIdle /\ FnIdle /\ MoreIdle

\* ------------------------------------------------------------------- Init
Init ==
    /\ input_files \in UNION {[1..n -> FileKinds] : n \in 0..MaxFiles}
    /\ batch_size \in (0 - MaxNegative)..MaxBatchSize
    /\ max_workers \in (0 - 1)..MaxWorkers
    /\ pc = "call"
    /\ raised = NoException
    /\ results = NoResults
    /\ processed_files = 0
    /\ failed_files = 0
    /\ num_batches = 0
    /\ batch_num = 0
    /\ batch_files = <<>>
    /\ batch_results = <<>>
    /\ submitted = 0
    /\ collected = {}
    /\ nthreads = 0
    /\ task = [f \in 1..Len(input_files) |-> NewTask]
    /\ progress = InitialProgress
    /\ batches = <<>>
    /\ NonBatchIdle

\* ------------------------------------------------------------ main thread
\* process_files up to the head of the batch loop.
Call ==
    /\ pc = "call"
    /\ results' = InitResults(Len(input_files), batch_size, max_workers)
    /\ IF Len(input_files) = 0
       THEN /\ pc' = "returned"
            /\ UNCHANGED <<raised, num_batches, progress>>
       ELSE IF batch_size = 0
       THEN /\ pc' = "raised"
            /\ raised' = "ZeroDivisionError"
            /\ UNCHANGED <<num_batches, progress>>
       ELSE /\ num_batches' = NumBatches(Len(input_files), batch_size)
            /\ progress' = ResetProgress(Len(input_files), num_batches')
            /\ pc' = IF num_batches' > 0 THEN "batch" ELSE "finish"
            /\ UNCHANGED raised
    /\ UNCHANGED <<input_files, batch_size, max_workers, processed_files,
                   failed_files, batch_num, batch_files, batch_results,
                   submitted, collected, nthreads, task, batches>>
    /\ UNCHANGED nonbatch

\* head of one loop iteration: slice, progress update, executor creation.
BatchBegin ==
    /\ pc = "batch"
    /\ batch_files' = BatchSlice(input_files, batch_num, batch_size)
    /\ batches' = Append(batches, batch_files')
    /\ progress' = UpdateProgress(progress, 0, Some(batch_num + 1),
                                  Some(<<"Starting batch", batch_num + 1>>),
                                  None)
    /\ batch_results' = <<>>
    /\ submitted' = 0
    /\ nthreads' = 0
    /\ IF max_workers <= 0
       THEN /\ pc' = "raised"
            /\ raised' = "ValueError"
       ELSE /\ pc' = IF Len(batch_files') = 0 THEN "collect" ELSE "submit"
            /\ UNCHANGED raised
    /\ UNCHANGED <<input_files, batch_size, max_workers, results,
                   processed_files, failed_files, num_batches, batch_num,
                   collected, task>>
    /\ UNCHANGED nonbatch

\* executor.submit(process_single_file, file_path, output_dir, batch_num+1, i+1)
Submit ==
    /\ pc = "submit"
    /\ LET i == submitted + 1
           f == batch_files[i]
       IN  /\ task' = [task EXCEPT ![f] = [st |-> "queued",
                                           batch |-> batch_num + 1,
                                           file_num |-> i]]
           /\ submitted' = i
           /\ pc' = IF i = Len(batch_files) THEN "collect" ELSE "submit"
    /\ nthreads' = AdjustThreadCount(nthreads, max_workers)
    /\ UNCHANGED <<input_files, batch_size, max_workers, raised, results,
                   processed_files, failed_files, num_batches, batch_num,
                   batch_files, batch_results, collected, progress, batches>>
    /\ UNCHANGED nonbatch

\* the as_completed loop body for the future of file f.
Collect(f) ==
    /\ pc = "collect"
    /\ f \in DOMAIN task
    /\ \E i \in 1..Len(batch_files) : batch_files[i] = f
    /\ Finished(f)
    /\ f \notin collected
    /\ collected' = collected \cup {f}
    /\ LET file_idx == (CHOOSE i \in 1..Len(batch_files) : batch_files[i] = f) - 1
       IN
       CASE task[f].st = "ok" ->
              /\ batch_results' = Append(batch_results, [success |-> TRUE])
              /\ results' = [results EXCEPT !.samples =
                                Append(@, [path |-> f, batch |-> task[f].batch])]
              /\ UNCHANGED <<failed_files, pc, raised>>
         [] task[f].st = "fail" ->
              /\ batch_results' = Append(batch_results, [success |-> FALSE])
              /\ results' = [results EXCEPT !.errors =
                                Append(@, [success |-> FALSE, file_path |-> f,
                                           batch |-> task[f].batch,
                                           file_num |-> task[f].file_num])]
              /\ failed_files' = failed_files + 1
              /\ UNCHANGED <<pc, raised>>
         [] task[f].st = "exc" ->
              \* except Exception: the handler formats its message with
              \* os.path.basename(file_path) before it records the error.
              IF BasenameRaises(input_files[f])
              THEN /\ pc' = "unwind"
                   /\ raised' = "TypeError"
                   /\ UNCHANGED <<batch_results, results, failed_files>>
              ELSE /\ results' = [results EXCEPT !.errors =
                                     Append(@, [file_path |-> f,
                                                batch |-> batch_num + 1,
                                                file_num |-> file_idx + 1])]
                   /\ failed_files' = failed_files + 1
                   /\ UNCHANGED <<batch_results, pc, raised>>
    /\ UNCHANGED <<input_files, batch_size, max_workers, processed_files,
                   num_batches, batch_num, batch_files, submitted, nthreads,
                   task, progress, batches>>
    /\ UNCHANGED nonbatch

\* an exception leaves the with block: the executor's __exit__ waits for the
\* work items already submitted, then the exception leaves process_files.
Unwind ==
    /\ pc = "unwind"
    /\ \A i \in 1..Len(batch_files) : Finished(batch_files[i])
    /\ pc' = "raised"
    /\ UNCHANGED <<input_files, batch_size, max_workers, raised, results,
                   processed_files, failed_files, num_batches, batch_num,
                   batch_files, batch_results, submitted, collected, nthreads,
                   task, progress, batches>>
    /\ UNCHANGED nonbatch

\* end of one loop iteration: batch statistics, next batch or the epilogue.
BatchEnd ==
    /\ pc = "collect"
    /\ BatchJoined
    /\ processed_files' = processed_files
                            + ProcessedInBatch(batch_files, batch_results)
    /\ batch_num' = batch_num + 1
    /\ pc' = IF batch_num + 1 < num_batches THEN "batch" ELSE "finish"
    /\ UNCHANGED <<input_files, batch_size, max_workers, raised, results,
                   failed_files, num_batches, batch_files, batch_results,
                   submitted, collected, nthreads, task, progress, batches>>
    /\ UNCHANGED nonbatch

\* final statistics and return.
Finish ==
    /\ pc = "finish"
    /\ \E total_time \in 0..MaxTime :
         results' = [results EXCEPT !.stats =
                        DictUpdate(@, FinalStats(processed_files, failed_files,
                                                 total_time, num_batches))]
    /\ pc' = "returned"
    /\ UNCHANGED <<input_files, batch_size, max_workers, raised,
                   processed_files, failed_files, num_batches, batch_num,
                   batch_files, batch_results, submitted, collected, nthreads,
                   task, progress, batches>>
    /\ UNCHANGED nonbatch

\* ---------------------------------------------------------- worker threads
\* an idle worker thread takes the oldest work item and runs
\* process_single_file up to its first progress update.
WorkerBegin(f) ==
    /\ f \in Queued
    /\ \A g \in Queued : task[f].file_num <= task[g].file_num
    /\ Cardinality(Running) < nthreads
    /\ IF BasenameRaises(input_files[f])
       THEN /\ task' = [task EXCEPT ![f].st = "exc"]
            /\ UNCHANGED progress
       ELSE /\ task' = [task EXCEPT ![f].st = "running"]
            /\ progress' = UpdateProgress(progress, 0, None,
                                          Some(<<"Processing file", f>>), None)
    /\ UNCHANGED <<input_files, batch_size, max_workers, pc, raised, results,
                   processed_files, failed_files, num_batches, batch_num,
                   batch_files, batch_results, submitted, collected, nthreads,
                   batches>>
    /\ UNCHANGED nonbatch

\* the rest of process_single_file: the success path, or the except branch.
WorkerFinish(f) ==
    /\ f \in Running
    /\ IF input_files[f] = "ok"
       THEN /\ progress' = UpdateProgress(progress, 1, None, None, None)
            /\ task' = [task EXCEPT ![f].st = "ok"]
       ELSE /\ progress' = UpdateProgress(progress, 1, None, None,
                                          Some(<<"Error processing", f>>))
            /\ task' = [task EXCEPT ![f].st = "fail"]
    /\ UNCHANGED <<input_files, batch_size, max_workers, pc, raised, results,
                   processed_files, failed_files, num_batches, batch_num,
                   batch_files, batch_results, submitted, collected, nthreads,
                   batches>>
    /\ UNCHANGED nonbatch

\* ------------------------------------------------------------------- Next
Next ==
    \/ Call
    \/ BatchBegin
    \/ Submit
    \/ \E f \in DOMAIN task : Collect(f)
    \/ Unwind
    \/ BatchEnd
    \/ Finish
    \/ \E f \in DOMAIN task : WorkerBegin(f)
    \/ \E f \in DOMAIN task : WorkerFinish(f)

\* one call of the batched process_files.
Spec == Init /\ [][Next]_<<vars, nonbatch>>

\* ================================================================ claims
N == Len(input_files)
Files == 1..N

\* the constraints of a BatchJob: batch_size > 0 and max_workers > 0.
ValidJob == batch_size >= 1 /\ max_workers >= 1

Returned == pc = "returned"

SampleEntries(f) ==
    {i \in 1..Len(results.samples) : results.samples[i].path = f}
ErrorEntries(f) ==
    {i \in 1..Len(results.errors) : results.errors[i].file_path = f}

\* batch number and index within the batch of the file at position f, both
\* 1-based, for a positive batch size.
BatchOf(f) == ((f - 1) \div batch_size) + 1
IndexInBatch(f) == ((f - 1) % batch_size) + 1

\* C1: for a valid job and any set of files whose processing raises, the
\* call never ends with an exception, and when it has returned every file
\* that does not fail is in samples exactly once and every failing file has
\* exactly one errors entry with its path, its 1-based batch number and its
\* 1-based index within the batch.
C1_FailureIsolation ==
    ValidJob =>
      /\ pc \notin {"unwind", "raised"}
      /\ Returned =>
           \A f \in Files :
             IF input_files[f] = "ok"
             THEN Cardinality(SampleEntries(f)) = 1
             ELSE /\ Cardinality(ErrorEntries(f)) = 1
                  /\ \A i \in ErrorEntries(f) :
                       /\ results.errors[i].batch = BatchOf(f)
                       /\ results.errors[i].file_num = IndexInBatch(f)

\* C2: when a valid job has returned, every input file is in exactly one of
\* samples and errors, failed_files + len(samples) = N and
\* len(errors) = failed_files.
C2_Accounting ==
    (ValidJob /\ Returned) =>
      /\ \A f \in Files :
           Cardinality(SampleEntries(f)) + Cardinality(ErrorEntries(f)) = 1
      /\ results.stats.failed_files + Len(results.samples) = N
      /\ Len(results.errors) = results.stats.failed_files

\* C2 witness: a returned run of several batches with successes and failures.
C2_Witness ==
    /\ ValidJob /\ Returned
    /\ Len(batches) >= 2
    /\ Len(results.samples) >= 1
    /\ Len(results.errors) >= 1

\* C3 as stated: when a valid job over N >= 1 files has returned, the
\* processed_files statistic equals N whether or not files failed.
C3_ProcessedEqualsN ==
    (ValidJob /\ Returned /\ N >= 1) => results.stats.processed_files = N

\* C3 amended: when a valid job over N >= 1 files has returned, the
\* processed_files statistic is the number of files processed successfully,
\* N - failed_files = len(samples); it is N only when no file failed.
C3_ProcessedCountsSuccesses ==
    (ValidJob /\ Returned /\ N >= 1) =>
      /\ results.stats.processed_files = N - results.stats.failed_files
      /\ results.stats.processed_files = Len(results.samples)
      /\ (results.stats.processed_files = N) <=> (Len(results.errors) = 0)

\* C3 witness: a returned run in which some files failed and some did not.
C3_Witness ==
    /\ ValidJob /\ Returned
    /\ results.stats.failed_files >= 1
    /\ results.stats.processed_files >= 1
    /\ results.stats.processed_files < N

\* ceil(n / b) for b >= 1, from its definition.
Ceil(n, b) == CHOOSE c \in 0..n : c * b >= n /\ (c - 1) * b < n

\* the k-th consecutive slice of b positions out of 1..n.
ConsecutiveSlice(k, n, b) ==
    [j \in 1..(Min(k * b, n) - (k - 1) * b) |-> (k - 1) * b + j]

\* C4: for N >= 1 files and batch_size B >= 1 the batch count is ceil(N/B),
\* the batches formed are the consecutive slices of the input in input
\* order, each of B files except the last, which has 1..B files, and once
\* the loop is through every file belongs to exactly one batch.
C4_Batches ==
    (N >= 1 /\ batch_size >= 1 /\ pc # "call") =>
      /\ num_batches = Ceil(N, batch_size)
      /\ Len(batches) <= num_batches
      /\ \A k \in 1..Len(batches) :
           /\ batches[k] = ConsecutiveSlice(k, N, batch_size)
           /\ Len(batches[k]) >= 1
           /\ Len(batches[k]) <= batch_size
           /\ k < num_batches => Len(batches[k]) = batch_size
      /\ pc \in {"finish", "returned"} =>
           /\ Len(batches) = Ceil(N, batch_size)
           /\ \A f \in Files :
                Cardinality({<<k, j>> \in (1..Len(batches)) \X (1..batch_size) :
                               j <= Len(batches[k]) /\ batches[k][j] = f}) = 1

\* C4 witness: a returned run of at least two batches whose last batch is
\* shorter than the batch size.
C4_Witness ==
    /\ Returned /\ batch_size >= 2
    /\ Len(batches) >= 2
    /\ Len(batches[Len(batches)]) < batch_size

Started(f) == task[f].st \in {"running", "ok", "fail", "exc"}

\* C5: for a positive batch size, results are awaited only once every file
\* of the batch has been submitted, and a file of a later batch has started
\* only if every file of every earlier batch has finished.
C5_SequentialBatches ==
    batch_size >= 1 =>
      /\ pc \in {"collect", "unwind"} =>
           \A i \in 1..Len(batch_files) : task[batch_files[i]].st # "new"
      /\ \A f \in collected :
           \A g \in Files : BatchOf(g) = BatchOf(f) => task[g].st # "new"
      /\ \A f \in Files : \A g \in Files :
           (Started(f) /\ BatchOf(g) < BatchOf(f)) => Finished(g)

\* C5 witness: a file of the second batch is running, after a first batch
\* of at least two files.
C5_Witness ==
    /\ batch_size >= 2
    /\ \E f \in Files : task[f].st = "running" /\ task[f].batch = 2

\* C6: at every moment the number of files being processed is at most
\* max_workers.
C6_BoundedConcurrency == Cardinality(Running) <= Max(max_workers, 0)

\* C6 witness: the pool is saturated while further files of the batch wait.
C6_Witness ==
    /\ max_workers >= 1
    /\ Cardinality(Running) = max_workers
    /\ Queued # {}

\* C7: in every step of a run the progress counter processed_files does not
\* decrease, it grows by exactly one when a file finishes, by success or by
\* failure, and changes in no other step; when a valid job returns it equals
\* total_files.
C7_ProgressCounter ==
    [][ /\ progress'.processed_files >= progress.processed_files
        /\ \A f \in Files :
             (~Finished(f) /\ Finished(f)') =>
               progress'.processed_files = progress.processed_files + 1
        /\ progress'.processed_files # progress.processed_files =>
             \E f \in Files : ~Finished(f) /\ Finished(f)'
        /\ (ValidJob /\ pc' = "returned") =>
             progress'.processed_files = progress'.total_files ]_vars

NothingStarted == \A f \in Files : task[f].st = "new"

\* C8: a call with a non-empty file list and batch_size <= 0 or
\* max_workers <= 0 ends with an error, with no file processed and the
\* progress state untouched; it never returns a result.
C8_ConfigRejected ==
    (N >= 1 /\ ~ValidJob /\ pc # "call") =>
      /\ pc = "raised"
      /\ progress = InitialProgress
      /\ NothingStarted

\* C9: whenever process_files has returned, success is true; the failures
\* are the entries of errors, counted by failed_files.
C9_SuccessFlag ==
    Returned =>
      /\ results.success = TRUE
      /\ results.stats.failed_files = Len(results.errors)
      /\ \A f \in Files : task[f].st = "fail" => ErrorEntries(f) # {}

\* C9 witness: a returned run of at least two files in which every file
\* failed.
C9_Witness ==
    /\ Returned /\ N >= 2
    /\ Len(results.errors) = N
    /\ Len(results.samples) = 0

ResultFields == {"success", "samples", "errors", "stats"}
StatsFields == {"total_files", "processed_files", "failed_files", "total_time",
                "files_per_second", "batch_size", "max_workers"}

\* C10: for every input list, the empty one included, the returned result
\* has the fields success, samples, errors and stats, and stats has
\* total_files, processed_files, failed_files, total_time, files_per_second,
\* batch_size and max_workers.
C10_ResultShape ==
    Returned =>
      /\ ResultFields \subseteq DOMAIN results
      /\ StatsFields \subseteq DOMAIN results.stats

\* ======================================================= similarity search
\* ---------------------------------------------------- exact arithmetic
\* Feature values are kept in hundredths (0.3 is 30, 120.0 is 12000), so all
\* the arithmetic of the cosine is integer arithmetic; a cosine does not
\* depend on the unit.  Products that do not fit a machine integer are kept
\* as natural numbers in base BigBase, least significant limb first, without
\* leading zero limbs (zero is the empty sequence).
BigBase == 10000

RECURSIVE ToBig(_)
ToBig(n) == IF n = 0 THEN <<>> ELSE <<n % BigBase>> \o ToBig(n \div BigBase)

RECURSIVE BigCarry(_, _)
\* a sequence of limb sums, each below 2^31 - BigBase, brought into base form.
BigCarry(limbs, carry) ==
    IF limbs = <<>>
    THEN ToBig(carry)
    ELSE LET t == limbs[1] + carry
             rest == BigCarry(Tail(limbs), t \div BigBase)
         IN  IF rest = <<>> /\ t % BigBase = 0 THEN <<>>
             ELSE <<t % BigBase>> \o rest

\* the limbs of a * b before carrying: column sums of the limb products.
BigMul(a, b) ==
    IF a = <<>> \/ b = <<>> THEN <<>>
    ELSE LET RECURSIVE Column(_, _)
             Column(k, i) ==
                 IF i > Len(a) THEN 0
                 ELSE (IF k - i + 1 >= 1 /\ k - i + 1 <= Len(b)
                       THEN a[i] * b[k - i + 1] ELSE 0) + Column(k, i + 1)
             RECURSIVE Split(_)
             \* one column sum per limb of the product, carried afterwards.
             Split(k) ==
                 IF k > Len(a) + Len(b) THEN <<>>
                 ELSE <<Column(k, 1)>> \o Split(k + 1)
         IN  BigCarry(Split(1), 0)

RECURSIVE BigLessFrom(_, _, _)
BigLessFrom(a, b, i) ==
    IF i = 0 THEN FALSE
    ELSE IF a[i] # b[i] THEN a[i] < b[i]
    ELSE BigLessFrom(a, b, i - 1)

BigLess(a, b) ==
    IF Len(a) # Len(b) THEN Len(a) < Len(b) ELSE BigLessFrom(a, b, Len(a))

Abs(x) == IF x < 0 THEN 0 - x ELSE x
Sign(x) == IF x < 0 THEN 0 - 1 ELSE IF x > 0 THEN 1 ELSE 0

RECURSIVE DotFrom(_, _, _)
DotFrom(u, v, i) ==
    IF i > Len(u) THEN 0 ELSE u[i] * v[i] + DotFrom(u, v, i + 1)
Dot(u, v) == DotFrom(u, v, 1)

\* ------------------------------------------------------- feature values
\* a JSON value of a features file: a number, a string, or a list.
Num(x) == [t |-> "num", v |-> x, items |-> <<>>]
Str == [t |-> "str", v |-> 0, items |-> <<>>]
List(xs) == [t |-> "list", v |-> 0, items |-> xs]
Nums(xs) == List([i \in 1..Len(xs) |-> Num(xs[i])])

\* isinstance(x, (int, float))
IsNumber(x) == x.t = "num"

FeatureKeys == <<"spectral_centroid", "spectral_bandwidth", "spectral_rolloff",
                 "zero_crossing_rate", "energy", "tempo">>
MfccPrefix == 10

\* mfcc_features = features['mfcc'][:10] if it is a list, else []
MfccFeatures(features) ==
    IF "mfcc" \in DOMAIN features /\ features["mfcc"].t = "list"
    THEN PySlice(features["mfcc"].items, 0, MfccPrefix) ELSE <<>>

\* the loop over feature_keys: the value if present and a number, else 0.0
ScalarFeatures(features) ==
    [i \in 1..Len(FeatureKeys) |->
        IF FeatureKeys[i] \in DOMAIN features
           /\ IsNumber(features[FeatureKeys[i]])
        THEN features[FeatureKeys[i]] ELSE Num(0)]

\* create_feature_vector.  np.array / np.linalg.norm raise on an entry that
\* is no number.  The result stands for v / sqrt(n2) when n2 > 0 (the
\* normalized vector) and for the zero vector v when n2 = 0.
CreateFeatureVector(features) ==
    LET vector == ScalarFeatures(features) \o MfccFeatures(features)
        raw == [i \in 1..Len(vector) |-> vector[i].v]
    IN  IF \E i \in 1..Len(vector) : ~IsNumber(vector[i])
        THEN [raises |-> TRUE, v |-> <<>>, n2 |-> 0]
        ELSE [raises |-> FALSE, v |-> raw, n2 |-> Dot(raw, raw)]

\* ----------------------------------------------------------- similarity
\* A similarity is the real number sgn * sqrt(num / den), or NaN.
SimNaN == [nan |-> TRUE, sgn |-> 0, num |-> <<>>, den |-> <<1>>]
SimOne == [nan |-> FALSE, sgn |-> 1, num |-> <<1>>, den |-> <<1>>]

\* variant of the similarity below without the division by the norms.
CosineSimilarityDot(u, v) ==
    LET d == Dot(u.v, v.v)
    IN  [nan |-> FALSE, sgn |-> Sign(d),
         num |-> BigMul(ToBig(Abs(d)), ToBig(Abs(d))),
         den |-> <<1>>]

\* 1 - cosine(u, v) for vectors of one length and non-zero norm:
\* dot(u, v) / sqrt(dot(u, u) * dot(v, v)).
CosineSimilarity(u, v) ==
    LET d == Dot(u.v, v.v)
    IN  [nan |-> FALSE, sgn |-> Sign(d),
         num |-> BigMul(ToBig(Abs(d)), ToBig(Abs(d))),
         den |-> BigMul(ToBig(u.n2), ToBig(v.n2))]

\* What `1 - cosine(reference_vector, sample_vector)` can produce.  scipy
\* raises ValueError on vectors of different length.  With a zero vector the
\* quotient is 0 / 0 = NaN; SciPy releases that clamp the distance with
\* max(0, min(d, 2.0)) turn that NaN into distance 0, similarity 1.
SimilarityOutcomes(u, v) ==
    IF Len(u.v) # Len(v.v)
    THEN {[raises |-> TRUE, similarity |-> SimNaN]}
    ELSE IF u.n2 = 0 \/ v.n2 = 0
    THEN {[raises |-> FALSE, similarity |-> SimNaN],
          [raises |-> FALSE, similarity |-> SimOne]}
    ELSE {[raises |-> FALSE, similarity |-> CosineSimilarity(u, v)]}

\* a < b on floats: false when either side is NaN.
SimLess(a, b) ==
    /\ ~a.nan /\ ~b.nan
    /\ \/ a.sgn < b.sgn
       \/ a.sgn = 1 /\ b.sgn = 1
          /\ BigLess(BigMul(a.num, b.den), BigMul(b.num, a.den))
       \/ a.sgn = 0 - 1 /\ b.sgn = 0 - 1
          /\ BigLess(BigMul(b.num, a.den), BigMul(a.num, b.den))

\* variant of the filter below that lets NaN and 0 through.
IsPositiveOrUndefined(s) == s.nan \/ s.sgn >= 0

\* similarity > 0
IsPositive(s) == ~s.nan /\ s.sgn = 1

RECURSIVE InsertBeforeEqual(_, _)
\* variant of the insertion below that places an entry before its equals.
InsertBeforeEqual(sorted, e) ==
    IF sorted = <<>> THEN <<e>>
    ELSE IF SimLess(e.similarity, sorted[1].similarity)
    THEN <<sorted[1]>> \o InsertBeforeEqual(Tail(sorted), e)
    ELSE <<e>> \o sorted

RECURSIVE InsertDescending(_, _)
\* e goes behind every entry whose key is not smaller than its own.
InsertDescending(sorted, e) ==
    IF sorted = <<>> THEN <<e>>
    ELSE IF SimLess(sorted[1].similarity, e.similarity)
    THEN <<e>> \o sorted
    ELSE <<sorted[1]>> \o InsertDescending(Tail(sorted), e)

RECURSIVE SortDescending(_, _)
\* list.sort(key=similarity, reverse=True): stable, so equal keys keep the
\* order they had in the list.  SortDescending(scores, Len(scores)).
SortDescending(scores, n) ==
    IF n = 0 THEN <<>>
    ELSE InsertDescending(SortDescending(scores, n - 1), scores[n])

\* variant: the list cut to max_results entries before it is sorted.
RankThenCutEarly(scores, m) ==
    LET cut == PySlice(scores, 0, m) IN SortDescending(cut, Len(cut))

\* similarity_scores.sort(...); return similarity_scores[:max_results]
Rank(scores, m) == PySlice(SortDescending(scores, Len(scores)), 0, m)

\* ------------------------------------------------------ the sample files
MaxCandidates == 3
MaxResults == 3

Zeros10 == <<0, 0, 0, 0, 0, 0, 0, 0, 0, 0>>
Loaded(features) == [state |-> "ok", features |-> features]

\* The feature files next to the samples (test_similarity_search.py writes
\* the four fixture files, values here in hundredths).  Equal similarities
\* occur only between samples with identical features, and a zero dot
\* product only where every term is zero, so floating point rounding makes
\* no comparison differ from the exact one.
FeatureFiles ==
    [kick_drum_punchy |-> Loaded(
        [spectral_centroid |-> Num(30), spectral_bandwidth |-> Num(50),
         spectral_rolloff |-> Num(70), zero_crossing_rate |-> Num(10),
         energy |-> Num(90), tempo |-> Num(12000),
         mfcc |-> Nums(<<10, 20, 30, 40, 50, 60, 70, 80, 90, 100>>),
         category |-> Str, mood |-> Str]),
     kick_drum_soft |-> Loaded(
        [spectral_centroid |-> Num(25), spectral_bandwidth |-> Num(45),
         spectral_rolloff |-> Num(65), zero_crossing_rate |-> Num(8),
         energy |-> Num(70), tempo |-> Num(11000),
         mfcc |-> Nums(<<12, 22, 32, 42, 52, 62, 72, 82, 92, 102>>),
         category |-> Str, mood |-> Str]),
     hihat_closed |-> Loaded(
        [spectral_centroid |-> Num(80), spectral_bandwidth |-> Num(90),
         spectral_rolloff |-> Num(95), zero_crossing_rate |-> Num(60),
         energy |-> Num(50), tempo |-> Num(12000),
         mfcc |-> Nums(<<50, 60, 70, 80, 90, 100, 110, 120, 130, 140>>),
         category |-> Str, mood |-> Str]),
     synth_lead |-> Loaded(
        [spectral_centroid |-> Num(70), spectral_bandwidth |-> Num(40),
         spectral_rolloff |-> Num(80), zero_crossing_rate |-> Num(30),
         energy |-> Num(60), tempo |-> Num(13000),
         mfcc |-> Nums(<<30, 40, 50, 60, 70, 80, 90, 100, 110, 120>>),
         category |-> Str, mood |-> Str]),
     a |-> Loaded(
        [spectral_centroid |-> Num(3), energy |-> Num(4),
         mfcc |-> Nums(<<1, 0, 0, 0, 0, 0, 0, 0, 0, 0>>)]),
     a_copy |-> Loaded(
        [spectral_centroid |-> Num(3), energy |-> Num(4),
         mfcc |-> Nums(<<1, 0, 0, 0, 0, 0, 0, 0, 0, 0>>)]),
     b |-> Loaded(
        [spectral_centroid |-> Num(3), energy |-> Str, tempo |-> Num(4),
         mfcc |-> Nums(<<1, 0, 0, 0, 0, 0, 0, 0, 0, 0>>)]),
     long |-> Loaded(
        [spectral_centroid |-> Num(1),
         mfcc |-> Nums(<<1, 1, 0, 0, 0, 0, 0, 0, 0, 0, 5, 5>>)]),
     neg |-> Loaded(
        [spectral_centroid |-> Num(0 - 3), mfcc |-> Nums(Zeros10)]),
     orth |-> Loaded(
        [spectral_bandwidth |-> Num(2), mfcc |-> Nums(Zeros10)]),
     zero |-> Loaded([tempo |-> Num(0), mfcc |-> Nums(Zeros10)]),
     short |-> Loaded(
        [spectral_centroid |-> Num(3), mfcc |-> Nums(<<1, 2, 3>>)]),
     nomfcc |-> Loaded([spectral_centroid |-> Num(3), energy |-> Num(4)]),
     badmfcc |-> Loaded(
        [spectral_centroid |-> Num(3),
         mfcc |-> List(<<Num(1), Str, Num(0), Num(0), Num(0),
                         Num(0), Num(0), Num(0), Num(0), Num(0)>>)]),
     empty |-> Loaded(<<>>),
     missing |-> [state |-> "absent", features |-> <<>>],
     broken |-> [state |-> "unparsable", features |-> <<>>]]

FixtureFiles == {"kick_drum_punchy", "kick_drum_soft", "hihat_closed",
                 "synth_lead"}
CandidateFiles == {"a", "a_copy", "b", "long", "neg", "orth", "zero", "short",
                   "badmfcc", "missing", "broken"}
ReferenceFiles == {"a", "b", "zero", "nomfcc", "empty", "missing"}

\* os.path.abspath: a relative and an absolute path of one file agree.
AbsPath(path) == [form |-> "abs", file |-> path.file]

\* variant of the test below on the path strings as given.
IsReferenceByString(sample_path, reference_path) ==
    sample_path = reference_path

\* os.path.abspath(sample_path) == os.path.abspath(reference_path)
IsReference(sample_path, reference_path) ==
    AbsPath(sample_path) = AbsPath(reference_path)

\* variant of the loader below that answers a missing or unreadable
\* features file with a default mapping.
LoadSampleFeaturesDefaulted(path) ==
    IF FeatureFiles[path.file].state = "ok"
    THEN Some(FeatureFiles[path.file].features)
    ELSE Some([mfcc |-> Nums(<<1, 0, 0, 0, 0, 0, 0, 0, 0, 0>>)])

\* load_sample_features: the parsed JSON, or None when the features file
\* does not exist or reading it raises.
LoadSampleFeatures(path) ==
    IF FeatureFiles[path.file].state = "ok"
    THEN Some(FeatureFiles[path.file].features) ELSE None

\* `not features`: None or an empty mapping.
Falsy(loaded) == loaded = None \/ DOMAIN loaded[1] = {}

\* ------------------------------------------------- find_similar_samples
\* The batch scheduler is not running while a similarity search is modelled.
BatchIdle ==
    /\ input_files = <<>> /\ batch_size = 1 /\ max_workers = 1
    /\ pc = "idle" /\ raised = NoException /\ results = NoResults
    /\ processed_files = 0 /\ failed_files = 0
    /\ num_batches = 0 /\ batch_num = 0
    /\ batch_files = <<>> /\ batch_results = <<>>
    /\ submitted = 0 /\ collected = {} /\ nthreads = 0
    /\ task = <<>> /\ progress = InitialProgress /\ batches = <<>>

nonsim == <<vars, fnvars, morevars>>

RECURSIVE Listings(_, _)
\* the orders in which glob can list up to n of the given files.
Listings(files, n) ==
    IF n = 0 THEN {<<>>}
    ELSE {<<>>} \cup
         UNION {{<<[form |-> "abs", file |-> f]>> \o rest :
                    rest \in Listings(files \ {f}, n - 1)} : f \in files}

\* one entry of sim_log: what the loop did with one listed path.
Logged(path, outcome, similarity) ==
    [path |-> path, outcome |-> outcome, similarity |-> similarity]

\* A call find_similar_samples(reference, samples_dir, max_results) over a
\* directory listing: either the test fixture with kick_drum_punchy as the
\* reference, or up to MaxCandidates of the other files.
SimInit ==
    /\ \/ /\ sample_files \in
                {l \in Listings(FixtureFiles, 4) : Len(l) = 4}
          /\ reference = [form |-> "abs", file |-> "kick_drum_punchy"]
       \/ /\ sample_files \in Listings(CandidateFiles, MaxCandidates)
          /\ reference \in [form : {"abs", "rel"}, file : ReferenceFiles]
    /\ max_results \in (0 - 1)..MaxResults
    /\ sim_pc = "call"
    /\ scan_idx = 0
    /\ reference_vector = NoVector
    /\ similarity_scores = <<>>
    /\ sim_result = <<>>
    /\ sim_log = <<>>
    /\ BatchIdle
    /\ FnIdle
    /\ MoreIdle

\* lines 101-114: load the reference, build its vector, list the directory.
SimCall ==
    /\ sim_pc = "call"
    /\ LET reference_features == LoadSampleFeatures(reference)
       IN  IF Falsy(reference_features)
           THEN /\ sim_pc' = "returned"
                /\ UNCHANGED <<reference_vector, scan_idx>>
           ELSE LET rv == CreateFeatureVector(reference_features[1])
                IN  IF rv.raises
                    THEN /\ sim_pc' = "raised"
                         /\ UNCHANGED <<reference_vector, scan_idx>>
                    ELSE /\ reference_vector' = rv
                         /\ scan_idx' = 1
                         /\ sim_pc' = "scan"
    /\ UNCHANGED <<reference, sample_files, max_results, similarity_scores,
                   sim_result, sim_log>>
    /\ UNCHANGED nonsim

\* lines 118-143: one iteration of the loop over sample_files.  The entry
\* appended also carries name, category and mood, copied from the path and
\* the features.
SimScan ==
    /\ sim_pc = "scan"
    /\ scan_idx <= Len(sample_files)
    /\ LET sample_path == sample_files[scan_idx]
           sample_features == LoadSampleFeatures(sample_path)
           Skip(why) ==
               /\ sim_log' = Append(sim_log, Logged(sample_path, why, SimNaN))
               /\ scan_idx' = scan_idx + 1
               /\ UNCHANGED <<sim_pc, similarity_scores>>
           Raise ==
               /\ sim_log' = Append(sim_log,
                                    Logged(sample_path, "raised", SimNaN))
               /\ sim_pc' = "raised"
               /\ UNCHANGED <<scan_idx, similarity_scores>>
       IN  IF IsReference(sample_path, reference) THEN Skip("self")
           ELSE IF Falsy(sample_features) THEN Skip("nofeatures")
           ELSE LET sample_vector == CreateFeatureVector(sample_features[1])
                IN  IF sample_vector.raises THEN Raise
                    ELSE \E o \in SimilarityOutcomes(reference_vector,
                                                     sample_vector) :
                           IF o.raises THEN Raise
                           ELSE /\ sim_log' = Append(sim_log,
                                       Logged(sample_path,
                                              IF IsPositive(o.similarity)
                                              THEN "kept" ELSE "dropped",
                                              o.similarity))
                                /\ similarity_scores' =
                                       IF IsPositive(o.similarity)
                                       THEN Append(similarity_scores,
                                              [path |-> sample_path,
                                               similarity |-> o.similarity])
                                       ELSE similarity_scores
                                /\ scan_idx' = scan_idx + 1
                                /\ UNCHANGED sim_pc
    /\ UNCHANGED <<reference, sample_files, max_results, reference_vector,
                   sim_result>>
    /\ UNCHANGED nonsim

\* lines 145-147: sort in place, return the first max_results entries.
SimReturn ==
    /\ sim_pc = "scan"
    /\ scan_idx > Len(sample_files)
    /\ similarity_scores' =
           SortDescending(similarity_scores, Len(similarity_scores))
    /\ sim_result' = Rank(similarity_scores, max_results)
    /\ sim_pc' = "returned"
    /\ UNCHANGED <<reference, sample_files, max_results, scan_idx,
                   reference_vector, sim_log>>
    /\ UNCHANGED nonsim

SimNext ==
    \/ SimCall
    \/ SimScan
    \/ SimReturn

\* one call of find_similar_samples
SpecSim == SimInit /\ [][SimNext]_<<simvars, nonsim>>

\* ------------------------------------------- similarity search: claims
\* the vector create_feature_vector builds for a listed sample.
VectorOf(path) == CreateFeatureVector(FeatureFiles[path.file].features)

\* the log entries of the candidates whose vector was built.
Compared == {i \in 1..Len(sim_log) :
                sim_log[i].outcome \in {"kept", "dropped", "raised"}}
Scored == {i \in 1..Len(sim_log) :
                sim_log[i].outcome \in {"kept", "dropped"}}
SimReturned == sim_pc = "returned" /\ reference_vector # NoVector
ResultFiles == {sim_result[i].path.file : i \in 1..Len(sim_result)}
PositionOf(file) ==
    CHOOSE i \in 1..Len(sim_result) : sim_result[i].path.file = file

\* C11: every vector create_feature_vector returns, for the reference or
\* for a candidate, has exactly 6 + 10 = 16 entries, whatever the mapping's
\* mfcc holds.
C11_VectorLength ==
    /\ reference_vector # NoVector
           => Len(reference_vector.v) = Len(FeatureKeys) + MfccPrefix
    /\ \A i \in Compared :
           ~VectorOf(sim_log[i].path).raises
               => Len(VectorOf(sim_log[i].path).v)
                      = Len(FeatureKeys) + MfccPrefix

\* C12: no missing or malformed feature of the reference or of a candidate
\* makes find_similar_samples end with an exception.
C12_NoAbort == sim_pc # "raised"

\* C13: a comparison in which the reference vector or the candidate vector
\* is all zeros scores exactly 0, and the candidate is dropped.
C13_ZeroVectorScoresZero ==
    \A i \in Scored :
        (reference_vector.n2 = 0 \/ VectorOf(sim_log[i].path).n2 = 0)
            => /\ ~sim_log[i].similarity.nan
               /\ sim_log[i].similarity.sgn = 0
               /\ sim_log[i].outcome = "dropped"

Kept == {i \in 1..Len(sim_log) : sim_log[i].outcome = "kept"}
ResultIndex == 1..Len(sim_result)
ScanPosition(path) ==
    CHOOSE k \in 1..Len(sample_files) : sample_files[k] = path

\* C14: the returned list is in non-increasing order of similarity and, for
\* max_results >= 0, holds min(max_results, number of qualifying candidates)
\* qualifying candidates, none of them scoring lower than an omitted one.
C14_SortedTopN ==
    sim_pc = "returned" =>
        /\ \A i, j \in ResultIndex :
               i < j => ~SimLess(sim_result[i].similarity,
                                 sim_result[j].similarity)
        /\ max_results >= 0 =>
               /\ Len(sim_result) = Min(max_results, Cardinality(Kept))
               /\ \A i \in ResultIndex : \E k \in Kept :
                      /\ sim_log[k].path = sim_result[i].path
                      /\ sim_log[k].similarity = sim_result[i].similarity
               /\ \A k \in Kept :
                      sim_log[k].path.file \notin ResultFiles
                          => \A i \in ResultIndex :
                                 ~SimLess(sim_result[i].similarity,
                                          sim_log[k].similarity)

C14_Witness ==
    /\ sim_pc = "returned"
    /\ max_results = 2
    /\ Cardinality(Kept) = 3
    /\ Len(sim_result) = 2
    /\ SimLess(sim_log[1].similarity, sim_log[3].similarity)
    /\ SimLess(sim_log[1].similarity, sim_log[2].similarity)

\* C15: the order of the returned list is fixed by the scores and the scan
\* order alone: of two returned candidates the earlier one scores higher,
\* or scores the same and was scanned first.
C15_StableTies ==
    sim_pc = "returned" =>
        \A i, j \in ResultIndex :
            i < j =>
                \/ SimLess(sim_result[j].similarity, sim_result[i].similarity)
                \/ /\ ~SimLess(sim_result[i].similarity,
                               sim_result[j].similarity)
                   /\ ScanPosition(sim_result[i].path)
                          < ScanPosition(sim_result[j].path)

C15_Witness ==
    /\ sim_pc = "returned"
    /\ Len(sim_result) = 3
    /\ \E i, j \in ResultIndex :
           /\ i < j
           /\ sim_result[i].similarity = sim_result[j].similarity
           /\ sim_result[i].path.file = "a"
           /\ sim_result[j].path.file = "a_copy"
    /\ ScanPosition(sim_result[1].path) = 3

\* C16: no candidate whose absolute path is the reference's absolute path
\* is scored or returned.
C16_ReferenceExcluded ==
    /\ \A i \in ResultIndex :
           AbsPath(sim_result[i].path) # AbsPath(reference)
    /\ \A i \in 1..Len(sim_log) :
           AbsPath(sim_log[i].path) = AbsPath(reference)
               => sim_log[i].outcome = "self"

C16_Witness ==
    /\ sim_pc = "returned"
    /\ reference.form = "rel"
    /\ \E k \in 1..Len(sample_files) : sample_files[k].file = reference.file
    /\ Len(sim_result) = 2

\* C17: every returned entry has a similarity above 0, and no candidate
\* that scored 0 or less is returned.
C17_PositiveOnly ==
    /\ \A i \in ResultIndex :
           ~sim_result[i].similarity.nan /\ sim_result[i].similarity.sgn = 1
    /\ \A i \in 1..Len(similarity_scores) :
           /\ ~similarity_scores[i].similarity.nan
           /\ similarity_scores[i].similarity.sgn = 1
    /\ \A k \in Scored :
           (~sim_log[k].similarity.nan /\ sim_log[k].similarity.sgn <= 0)
               => sim_log[k].path.file \notin ResultFiles

C17_Witness ==
    /\ sim_pc = "returned"
    /\ Len(sim_result) = 1
    /\ max_results = MaxResults
    /\ \E k \in Scored : sim_log[k].similarity.sgn = 0 - 1
    /\ \E k \in Scored :
           ~sim_log[k].similarity.nan /\ sim_log[k].similarity.sgn = 0

HasFeatureFile(path) == FeatureFiles[path.file].state = "ok"

\* C18: a candidate without a readable features file is skipped without an
\* exception and is not returned, the candidates listed with it are still
\* scored and returned, and a reference without a readable features file
\* makes the call return the empty list.
C18_FeaturelessSkipped ==
    /\ \A i \in 1..Len(sim_log) :
           (~HasFeatureFile(sim_log[i].path)
                /\ ~IsReference(sim_log[i].path, reference))
               => /\ sim_log[i].outcome = "nofeatures"
                  /\ sim_log[i].path.file \notin ResultFiles
    /\ (sim_pc = "returned" /\ reference_vector # NoVector
            /\ max_results >= Len(sample_files))
           => \A k \in 1..Len(sample_files) :
                  (/\ HasFeatureFile(sample_files[k])
                   /\ ~Falsy(LoadSampleFeatures(sample_files[k]))
                   /\ ~IsReference(sample_files[k], reference)
                   /\ reference_vector.n2 > 0
                   /\ VectorOf(sample_files[k]).n2 > 0
                   /\ IsPositive(CosineSimilarity(reference_vector,
                                     VectorOf(sample_files[k]))))
                      => sample_files[k].file \in ResultFiles
    /\ (sim_pc # "call" /\ ~HasFeatureFile(reference))
           => sim_pc = "returned" /\ sim_result = <<>>

C18_Witness ==
    /\ sim_pc = "returned"
    /\ Len(sample_files) = 3
    /\ sample_files[1].file = "missing"
    /\ sample_files[2].file = "broken"
    /\ Len(sim_log) = 3
    /\ sim_log[1].outcome = "nofeatures"
    /\ sim_log[2].outcome = "nofeatures"
    /\ ResultFiles = {sample_files[3].file}

\* C19: with the four fixture samples listed and kick_drum_punchy as the
\* reference, kick_drum_soft is returned ahead of hihat_closed and of
\* synth_lead, and is the first entry whenever one is returned.
C19_FixtureRanking ==
    (sim_pc = "returned" /\ reference.file = "kick_drum_punchy") =>
        /\ \A f \in {"hihat_closed", "synth_lead"} \cap ResultFiles :
               /\ "kick_drum_soft" \in ResultFiles
               /\ PositionOf("kick_drum_soft") < PositionOf(f)
        /\ sim_result # <<>> => sim_result[1].path.file = "kick_drum_soft"
        /\ "kick_drum_punchy" \notin ResultFiles

C19_Witness ==
    /\ sim_pc = "returned"
    /\ reference.file = "kick_drum_punchy"
    /\ max_results = 3
    /\ sample_files[1].file = "hihat_closed"
    /\ sample_files[4].file = "kick_drum_soft"
    /\ Len(sim_result) = 3
    /\ sim_result[1].path.file = "kick_drum_soft"
    /\ sim_result[2].path.file = "synth_lead"
    /\ sim_result[3].path.file = "hihat_closed"

\* ================================================== filename classifier
\* (electron-audio-manager/python/quick_classifier.py)
\* A file name is a sequence of characters; keywords are matched as
\* substrings of it.
\* subtype -> keywords, in the order of the dict literal.
CATEGORY_KEYWORDS ==
  <<
    [name |-> "kick",
     keywords |-> <<<<"k", "i", "c", "k">>,
                   <<"b", "a", "s", "s", " ", "d", "r", "u", "m">>,
                   <<"b", "d">>, <<"8", "0", "8">>>>],
    [name |-> "snare",
     keywords |-> <<<<"s", "n", "a", "r", "e">>, <<"s", "d">>,
                   <<"r", "i", "m">>>>],
    [name |-> "hi_hat_cymbal",
     keywords |-> <<<<"h", "a", "t">>, <<"h", "h">>,
                   <<"h", "i", "-", "h", "a", "t">>,
                   <<"h", "i", "h", "a", "t">>,
                   <<"c", "y", "m", "b", "a", "l">>,
                   <<"c", "r", "a", "s", "h">>, <<"r", "i", "d", "e">>>>],
    [name |-> "tom",
     keywords |-> <<<<"t", "o", "m">>, <<"f", "l", "o", "o", "r">>,
                   <<"r", "a", "c", "k">>>>],
    [name |-> "clap",
     keywords |-> <<<<"c", "l", "a", "p">>,
                   <<"h", "a", "n", "d", "c", "l", "a", "p">>>>],
    [name |-> "other_percussion",
     keywords |-> <<<<"p", "e", "r", "c">>, <<"d", "r", "u", "m">>,
                   <<"p", "e", "r", "c", "u", "s", "s", "i", "o", "n">>,
                   <<"s", "h", "a", "k", "e", "r">>,
                   <<"t", "a", "m", "b", "o", "u", "r", "i", "n", "e">>,
                   <<"c", "o", "n", "g", "a">>, <<"b", "o", "n", "g", "o">>>>],
    [name |-> "bass",
     keywords |-> <<<<"b", "a", "s", "s">>, <<"s", "u", "b">>,
                   <<"8", "0", "8", " ", "b", "a", "s", "s">>,
                   <<"b", "a", "s", "s", "l", "i", "n", "e">>,
                   <<"b", "a", "s", "s", " ", "l", "i", "n", "e">>>>],
    [name |-> "synth_lead",
     keywords |-> <<<<"l", "e", "a", "d">>,
                   <<"s", "y", "n", "t", "h", " ", "l", "e", "a", "d">>,
                   <<"l", "e", "a", "d", " ", "s", "y", "n", "t", "h">>,
                   <<"m", "e", "l", "o", "d", "y">>, <<"a", "r", "p">>,
                   <<"p", "l", "u", "c", "k">>,
                   <<"s", "a", "w", " ", "l", "e", "a", "d">>>>],
    [name |-> "synth_pad",
     keywords |-> <<<<"p", "a", "d">>,
                   <<"s", "y", "n", "t", "h", " ", "p", "a", "d">>,
                   <<"a", "t", "m", "o", "s", "p", "h", "e", "r", "e">>,
                   <<"a", "m", "b", "i", "e", "n", "t">>,
                   <<"t", "e", "x", "t", "u", "r", "e">>,
                   <<"d", "r", "o", "n", "e">>>>],
    [name |-> "piano_keys",
     keywords |-> <<<<"p", "i", "a", "n", "o">>, <<"k", "e", "y", "s">>,
                   <<"k", "e", "y", "b", "o", "a", "r", "d">>,
                   <<"r", "h", "o", "d", "e", "s">>,
                   <<"w", "u", "r", "l", "i", "t", "z", "e", "r">>,
                   <<"o", "r", "g", "a", "n">>,
                   <<"e", "p", "i", "a", "n", "o">>,
                   <<"e", "-", "p", "i", "a", "n", "o">>>>],
    [name |-> "strings",
     keywords |-> <<<<"s", "t", "r", "i", "n", "g", "s">>,
                   <<"v", "i", "o", "l", "i", "n">>,
                   <<"v", "i", "o", "l", "a">>, <<"c", "e", "l", "l", "o">>,
                   <<"o", "r", "c", "h", "e", "s", "t", "r", "a", "l">>,
                   <<"o", "r", "c", "h", "e", "s", "t", "r", "a">>>>],
    [name |-> "brass",
     keywords |-> <<<<"b", "r", "a", "s", "s">>,
                   <<"t", "r", "u", "m", "p", "e", "t">>,
                   <<"t", "r", "o", "m", "b", "o", "n", "e">>,
                   <<"h", "o", "r", "n">>, <<"s", "a", "x">>,
                   <<"s", "a", "x", "o", "p", "h", "o", "n", "e">>>>],
    [name |-> "guitar",
     keywords |-> <<<<"g", "u", "i", "t", "a", "r">>, <<"g", "t", "r">>,
                   <<"a", "c", "o", "u", "s", "t", "i", "c", " ", "g", "u", "i", "t", "a", "r">>,
                   <<"e", "l", "e", "c", "t", "r", "i", "c", " ", "g", "u", "i", "t", "a", "r">>>>],
    [name |-> "vocal",
     keywords |-> <<<<"v", "o", "c", "a", "l">>, <<"v", "o", "x">>,
                   <<"v", "o", "i", "c", "e">>,
                   <<"a", "c", "a", "p", "e", "l", "l", "a">>,
                   <<"s", "i", "n", "g">>, <<"c", "h", "o", "i", "r">>,
                   <<"a", "d", "l", "i", "b">>>>],
    [name |-> "fx",
     keywords |-> <<<<"f", "x">>, <<"e", "f", "f", "e", "c", "t">>,
                   <<"r", "i", "s", "e", "r">>,
                   <<"d", "o", "w", "n", "l", "i", "f", "t", "e", "r">>,
                   <<"i", "m", "p", "a", "c", "t">>,
                   <<"w", "h", "o", "o", "s", "h">>,
                   <<"t", "r", "a", "n", "s", "i", "t", "i", "o", "n">>,
                   <<"f", "o", "l", "e", "y">>>>]
  >>

\* main type -> subtypes, in the order of the dict literal.
MAIN_CATEGORIES ==
  <<
    [name |-> "percussion", subtypes |-> <<"kick", "snare", "hi_hat_cymbal", "tom", "clap", "other_percussion">>],
    [name |-> "bass", subtypes |-> <<"bass">>],
    [name |-> "lead", subtypes |-> <<"synth_lead", "piano_keys">>],
    [name |-> "pad", subtypes |-> <<"synth_pad", "strings", "brass">>],
    [name |-> "guitar", subtypes |-> <<"guitar">>],
    [name |-> "vocal", subtypes |-> <<"vocal">>],
    [name |-> "fx", subtypes |-> <<"fx">>]
  >>

\* mood -> keywords, in the order of the dict literal.
MOOD_KEYWORDS ==
  <<
    [name |-> "dark",
     keywords |-> <<<<"d", "a", "r", "k">>, <<"m", "i", "n", "o", "r">>,
                   <<"s", "a", "d">>, <<"m", "o", "o", "d", "y">>,
                   <<"m", "e", "l", "a", "n", "c", "h", "o", "l", "y">>,
                   <<"s", "c", "a", "r", "y">>,
                   <<"h", "o", "r", "r", "o", "r">>,
                   <<"t", "e", "n", "s", "e">>>>],
    [name |-> "bright",
     keywords |-> <<<<"b", "r", "i", "g", "h", "t">>,
                   <<"m", "a", "j", "o", "r">>, <<"h", "a", "p", "p", "y">>,
                   <<"u", "p", "l", "i", "f", "t", "i", "n", "g">>,
                   <<"c", "h", "e", "e", "r", "f", "u", "l">>,
                   <<"l", "i", "g", "h", "t">>>>],
    [name |-> "energetic",
     keywords |-> <<<<"e", "n", "e", "r", "g", "e", "t", "i", "c">>,
                   <<"e", "n", "e", "r", "g", "y">>,
                   <<"p", "o", "w", "e", "r", "f", "u", "l">>,
                   <<"d", "r", "i", "v", "i", "n", "g">>,
                   <<"h", "a", "r", "d">>,
                   <<"a", "g", "g", "r", "e", "s", "s", "i", "v", "e">>>>],
    [name |-> "chill",
     keywords |-> <<<<"c", "h", "i", "l", "l">>, <<"c", "a", "l", "m">>,
                   <<"r", "e", "l", "a", "x", "e", "d">>,
                   <<"s", "o", "f", "t">>, <<"g", "e", "n", "t", "l", "e">>,
                   <<"m", "e", "l", "l", "o", "w">>,
                   <<"a", "m", "b", "i", "e", "n", "t">>>>],
    [name |-> "epic",
     keywords |-> <<<<"e", "p", "i", "c">>,
                   <<"c", "i", "n", "e", "m", "a", "t", "i", "c">>,
                   <<"m", "o", "v", "i", "e">>,
                   <<"t", "r", "a", "i", "l", "e", "r">>,
                   <<"d", "r", "a", "m", "a", "t", "i", "c">>>>]
  >>

\* str.lower on the letters of the alphabet; other characters stay.
UpperToLower ==
    [A |-> "a", B |-> "b", C |-> "c", D |-> "d", E |-> "e", F |-> "f",
     G |-> "g", H |-> "h", I |-> "i", J |-> "j", K |-> "k", L |-> "l",
     M |-> "m", N |-> "n", O |-> "o", P |-> "p", Q |-> "q", R |-> "r",
     S |-> "s", T |-> "t", U |-> "u", V |-> "v", W |-> "w", X |-> "x",
     Y |-> "y", Z |-> "z"]

Lower(c) == IF c \in DOMAIN UpperToLower THEN UpperToLower[c] ELSE c
LowerStr(s) == [i \in 1..Len(s) |-> Lower(s[i])]

\* os.path.basename: what follows the last "/".
Basename(path) ==
    LET slashes == {i \in 1..Len(path) : path[i] = "/"}
        last == IF slashes = {} THEN 0
                ELSE CHOOSE i \in slashes : \A j \in slashes : j <= i
    IN  SubSeq(path, last + 1, Len(path))

\* keyword in filename
Contains(keyword, filename) ==
    \E i \in 0..(Len(filename) - Len(keyword)) :
        SubSeq(filename, i + 1, i + Len(keyword)) = keyword

\* any(keyword in filename for keyword in keywords)
AnyKeyword(keywords, filename) ==
    \E k \in 1..Len(keywords) : Contains(keywords[k], filename)

RECURSIVE ScanKeywordsNoBreak(_, _, _, _)
\* variant of the loop below without the break: the last match stays.
ScanKeywordsNoBreak(table, filename, i, found) ==
    IF i > Len(table) THEN found
    ELSE ScanKeywordsNoBreak(table, filename, i + 1,
             IF AnyKeyword(table[i].keywords, filename)
             THEN table[i].name ELSE found)

RECURSIVE ScanKeywords(_, _, _, _)
\* for name, keywords in table.items(): the first entry with a keyword in
\* the file name ends the loop; `found` is the value kept when none has.
ScanKeywords(table, filename, i, found) ==
    IF i > Len(table) THEN found
    ELSE IF AnyKeyword(table[i].keywords, filename) THEN table[i].name
    ELSE ScanKeywords(table, filename, i + 1, found)

RECURSIVE MainType(_, _, _)
\* for main_type, subtypes in MAIN_CATEGORIES.items(): first list holding
\* the subtype.
MainType(subtype, i, found) ==
    IF i > Len(MAIN_CATEGORIES) THEN found
    ELSE IF \E k \in 1..Len(MAIN_CATEGORIES[i].subtypes) :
                MAIN_CATEGORIES[i].subtypes[k] = subtype
    THEN MAIN_CATEGORIES[i].name
    ELSE MainType(subtype, i + 1, found)

ClassifyByFilename(path) ==
    LET filename == LowerStr(Basename(path))
        subtype == ScanKeywords(CATEGORY_KEYWORDS, filename, 1,
                                DefaultClassification.subtype)
    IN  [type |-> MainType(subtype, 1, DefaultClassification.type),
         subtype |-> subtype,
         mood |-> ScanKeywords(MOOD_KEYWORDS, filename, 1,
                               DefaultClassification.mood)]

\* ------------------------------------------------------------ file names
MaxWords == 4

Words ==
    {<<"k", "i", "c", "k">>, <<"d", "r", "u", "m">>,
     <<"p", "u", "n", "c", "h", "y">>, <<"1", "2", "0", "b", "p", "m">>,
     <<"b", "a", "s", "s">>, <<"P", "a", "d">>, <<"D", "a", "r", "k">>}
Separators == {<<"_">>, <<" ">>}
Directories == {<<>>, <<"K", "i", "c", "k", "s", "/">>}
Extension == <<".", "w", "a", "v">>

RECURSIVE Stems(_, _)
\* one to n words joined by the separator.
Stems(sep, n) ==
    IF n = 1 THEN Words
    ELSE Stems(sep, n - 1) \cup
         {stem \o sep \o w : stem \in Stems(sep, n - 1), w \in Words}

FilePaths ==
    {dir \o stem \o Extension :
        dir \in Directories,
        stem \in UNION {Stems(sep, MaxWords) : sep \in Separators}}

FnInit ==
    /\ file_path \in FilePaths
    /\ classification = DefaultClassification
    /\ fn_pc = "call"
    /\ BatchIdle
    /\ SimIdle
    /\ MoreIdle

\* classify_by_filename(file_path)
FnClassify ==
    /\ fn_pc = "call"
    /\ classification' = ClassifyByFilename(file_path)
    /\ fn_pc' = "returned"
    /\ UNCHANGED file_path
    /\ UNCHANGED <<vars, simvars, morevars>>

FnNext == FnClassify

\* one call of classify_by_filename
SpecFilename == FnInit /\ [][FnNext]_<<fnvars, vars, simvars, morevars>>

\* --------------------------------------------- filename classifier: claims
\* keyword occurs in name, character by character.
Occurs(keyword, name) ==
    \E pre \in 0..(Len(name) - Len(keyword)) :
        \A c \in 1..Len(keyword) : name[pre + c] = keyword[c]

\* the table entries with a keyword that occurs in name.
Matching(name) ==
    {i \in 1..Len(CATEGORY_KEYWORDS) :
        \E k \in 1..Len(CATEGORY_KEYWORDS[i].keywords) :
            Occurs(CATEGORY_KEYWORDS[i].keywords[k], name)}

Least(S) == CHOOSE i \in S : \A j \in S : i <= j

KickDrumPunchy ==
    <<"k", "i", "c", "k", "_", "d", "r", "u", "m", "_",
      "p", "u", "n", "c", "h", "y", "_", "1", "2", "0", "b", "p", "m",
      ".", "w", "a", "v">>

C26_CategoryAndMood ==
    fn_pc = "returned" =>
        LET name == LowerStr(Basename(file_path))
        IN  /\ "category" \in DOMAIN classification
            /\ Matching(name) = {} => classification.category = "unknown"
            /\ file_path = KickDrumPunchy => classification.category = "drums"
            /\ Occurs(<<"d", "a", "r", "k">>, name)
                   => classification.mood = "dark"
            /\ Occurs(<<"p", "u", "n", "c", "h", "y">>, name)
                   => classification.mood = "punchy"

nonpg == <<vars, simvars, fnvars, idvars, cvvars, dpvars, lbvars>>

\* one use of the progress structure: the reset of lines 267-277 or a call
\* _update_progress(increment, batch_num, message, error).
ResetCall(total, nb) ==
    [reset |-> TRUE, total |-> total, nb |-> nb, increment |-> 0,
     batch_num |-> None, message |-> None, error |-> None]

UpdateCall(increment, bnum, message, error) ==
    [reset |-> FALSE, total |-> 0, nb |-> 0, increment |-> increment,
     batch_num |-> bnum, message |-> message, error |-> error]

\* process_single_file: the calls of lines 159 and 206 (214 after a failure).
\* The file name inside the texts plays no part here and is left out.
WorkerCalls(fails) ==
    << UpdateCall(0, None, Some(<<"Processing file", 0>>), None),
       UpdateCall(1, None, None,
                  IF fails THEN Some(<<"Error processing", 0>>) ELSE None) >>

\* the files of batch b (numbered from 0) of run r, by position in the input
RunBatchFiles(r, b) ==
    { i \in 1..run[r].total_files :
        /\ i > b * run[r].batch_size
        /\ i <= Min((b * run[r].batch_size) + run[r].batch_size,
                    run[r].total_files) }

\* variant: the lock is never waited for.
LockFreeAlways(t) == TRUE

\* `with _progress_lock:` blocks until no thread holds the lock.
LockFree(t) == progress_lock = NoThread

\* the stores of one call, made with the counter value loaded before them.
ApplyCall(p, c, loaded) ==
    IF c.reset
    THEN ResetProgress(c.total, c.nb)
    ELSE UpdateProgress(
             [p EXCEPT !.processed_files = IF c.increment > 0 THEN loaded ELSE @],
             c.increment, c.batch_num, c.message, c.error)

PgInit ==
    /\ PgIdle
    /\ IdIdle
    /\ CvIdle
    /\ DpIdle
    /\ LbIdle
    /\ BatchIdle
    /\ SimIdle
    /\ FnIdle

\* process_files(input_files, None, batch_size, max_workers) is called with a
\* non-empty list and batch_size >= 1; it reaches the reset of line 267.  A
\* batch_size above the number of files gives the same single batch as one
\* equal to it.
RunCall(r) ==
    /\ run[r].phase = "new"
    /\ \E n \in 1..MaxRunFiles, bs \in 1..MaxRunFiles :
          /\ bs <= n
          /\ LET nb == FloorDiv(n + bs - 1, bs)
             IN  /\ run' = [run EXCEPT ![r] =
                               [total_files |-> n, batch_size |-> bs,
                                num_batches |-> nb, batch_num |-> 0,
                                phase |-> "reset"]]
                 /\ thread' = [thread EXCEPT ![MainThread(r)] =
                                  [pc |-> "acquire", tmp |-> 0,
                                   todo |-> <<ResetCall(n, nb)>>]]
    /\ UNCHANGED <<progress_data, progress_lock, reported>>
    /\ UNCHANGED nonpg

\* entering `with _progress_lock:`, and the read half of
\* `_progress_data["processed_files"] += increment`
Acquire(t) ==
    /\ thread[t].pc = "acquire"
    /\ LockFree(t)
    /\ progress_lock' = t
    /\ thread' = [thread EXCEPT ![t].pc = "store",
                                ![t].tmp = progress_data.processed_files]
    /\ UNCHANGED <<progress_data, run, reported>>
    /\ UNCHANGED nonpg

\* the stores of the call and the end of the `with` block; `reported` counts
\* the finished files reported since the latest reset.
StoreRelease(t) ==
    /\ thread[t].pc = "store"
    /\ progress_lock' = NoThread
    /\ LET c == Head(thread[t].todo)
           rest == Tail(thread[t].todo)
       IN  /\ progress_data' = ApplyCall(progress_data, c, thread[t].tmp)
           /\ reported' = IF c.reset THEN 0 ELSE reported + c.increment
           /\ thread' = [thread EXCEPT
                            ![t].todo = rest,
                            ![t].tmp = 0,
                            ![t].pc = IF rest = <<>> THEN "done" ELSE "acquire"]
    /\ UNCHANGED run
    /\ UNCHANGED nonpg

\* top of the batch loop: _update_progress(batch_num=batch_num+1, message=...)
Announce(r) ==
    /\ run[r].phase \in {"reset", "loop"}
    /\ thread[MainThread(r)].pc = "done"
    /\ run[r].batch_num < run[r].num_batches
    /\ thread' = [thread EXCEPT ![MainThread(r)] =
                     [pc |-> "acquire", tmp |-> 0,
                      todo |-> << UpdateCall(0, Some(run[r].batch_num + 1),
                                      Some(<<"Starting batch",
                                             run[r].batch_num + 1>>), None) >>]]
    /\ run' = [run EXCEPT ![r].phase = "announce"]
    /\ UNCHANGED <<progress_data, progress_lock, reported>>
    /\ UNCHANGED nonpg

\* executor.submit(process_single_file, ...) for every file of the batch;
\* each file either classifies or fails inside process_single_file.
SubmitBatch(r) ==
    /\ run[r].phase = "announce"
    /\ thread[MainThread(r)].pc = "done"
    /\ \E failing \in SUBSET RunBatchFiles(r, run[r].batch_num) :
          thread' = [t \in ThreadIds |->
                        IF t.run = r /\ t.file \in RunBatchFiles(r, run[r].batch_num)
                        THEN [pc |-> "acquire", tmp |-> 0,
                              todo |-> WorkerCalls(t.file \in failing)]
                        ELSE thread[t]]
    /\ run' = [run EXCEPT ![r].phase = "wait"]
    /\ UNCHANGED <<progress_data, progress_lock, reported>>
    /\ UNCHANGED nonpg

\* the `with ThreadPoolExecutor` block ends when every worker has returned;
\* after the last batch process_files returns.
JoinBatch(r) ==
    /\ run[r].phase = "wait"
    /\ \A i \in RunBatchFiles(r, run[r].batch_num) :
          thread[Worker(r, i)].pc = "done"
    /\ run' = [run EXCEPT
                  ![r].batch_num = @ + 1,
                  ![r].phase = IF run[r].batch_num + 1 = run[r].num_batches
                               THEN "returned" ELSE "loop"]
    /\ UNCHANGED <<progress_data, progress_lock, thread, reported>>
    /\ UNCHANGED nonpg

PgNext ==
    \/ \E r \in Runs : RunCall(r)
    \/ \E t \in ThreadIds : Acquire(t)
    \/ \E t \in ThreadIds : StoreRelease(t)
    \/ \E r \in Runs : Announce(r)
    \/ \E r \in Runs : SubmitBatch(r)
    \/ \E r \in Runs : JoinBatch(r)

SpecProgress == PgInit /\ [][PgNext]_<<pgvars, nonpg>>

\* ---- what the claims about the progress structure speak of
InProgress(r) == run[r].phase \notin {"new", "returned"}
SameFraction(a, b) == a[1] * b[2] = b[1] * a[2]

\* C27: every store into the progress structure is made by the thread that
\* holds the lock, so no report is lost: whenever the lock is free,
\* processed_files equals the number of finished files reported since the
\* latest reset, and once a run has set the totals overall_progress is
\* processed_files / total_files * 100 and batch_progress is
\* current_batch / total_batches * 100.
C27_LockedUpdates ==
    /\ \A t \in ThreadIds :
          thread[t].pc = "store" => progress_lock = t
    /\ progress_lock = NoThread =>
          /\ progress_data.processed_files = reported
          /\ progress_data.total_files > 0 =>
                SameFraction(progress_data.overall_progress,
                             Percent(progress_data.processed_files,
                                     progress_data.total_files))
          /\ progress_data.total_batches > 0 =>
                SameFraction(progress_data.batch_progress,
                             Percent(progress_data.current_batch,
                                     progress_data.total_batches))

\* the two workers of one batch have both reported and both reports are in
\* the counter.
C27_Witness ==
    /\ progress_lock = NoThread
    /\ reported = 2
    /\ progress_data.processed_files = 2
    /\ progress_data.overall_progress = <<200, 2>>
    /\ \E r \in Runs :
          /\ run[r].phase = "wait"
          /\ \A i \in 1..2 : thread[Worker(r, i)].pc = "done"

\* C30: the snapshot stays within its bounds, and processed_files never
\* decreases while a run is in progress, also when two runs overlap.
ProgressBounds ==
    /\ 0 <= progress_data.processed_files
    /\ progress_data.processed_files <= progress_data.total_files
    /\ 0 <= progress_data.current_batch
    /\ progress_data.current_batch <= progress_data.total_batches

NeverDecreases ==
    (\E r \in Runs : InProgress(r)) =>
        progress_data'.processed_files >= progress_data.processed_files

C30_SnapshotBounds == []ProgressBounds /\ [][NeverDecreases]_pgvars


\* ============================================================ sample ids
\* process_files of python/quick_classifier.py gives every input file an id
\* made from its file name (line 115); trash/quick_classifier.py line 162 and
\* the deep classifiers build it the same way.
MaxIdFiles == 2

nonid == <<vars, simvars, fnvars, pgvars, cvvars, dpvars, lbvars>>

\* os.path.splitext(name)[0]: the name up to its last dot, unless only dots
\* precede that dot.
SplitextRoot(name) ==
    LET dots == {i \in 1..Len(name) : name[i] = "."}
        last == IF dots = {} THEN 0
                ELSE CHOOSE i \in dots : \A j \in dots : j <= i
    IN  IF last > 0 /\ \E j \in 1..(last - 1) : name[j] # "."
        THEN SubSeq(name, 1, last - 1)
        ELSE name

\* .replace(' ', '_')
ReplaceSpaces(s) == [i \in 1..Len(s) |-> IF s[i] = " " THEN "_" ELSE s[i]]

\* f"sample_{os.path.splitext(os.path.basename(file_path))[0].replace(' ', '_').lower()}"
SampleId(path) ==
    <<"s", "a", "m", "p", "l", "e", "_">>
        \o LowerStr(ReplaceSpaces(SplitextRoot(Basename(path))))

IdDirectories ==
    {<<>>, <<"K", "i", "c", "k", "s", "/">>, <<"o", "l", "d", "/">>}
IdStems ==
    {<<"K", "i", "c", "k", " ", "1">>, <<"k", "i", "c", "k", " ", "1">>,
     <<"k", "i", "c", "k", "_", "1">>, <<"k", "i", "c", "k", "1">>,
     <<"k", "i", "c", "k", ".", "1">>}
IdExtensions == {<<>>, <<".", "w", "a", "v">>, <<".", "m", "p", "3">>}
IdPaths ==
    {dir \o stem \o ext :
        dir \in IdDirectories, stem \in IdStems, ext \in IdExtensions}

RECURSIVE Lists(_, _)
\* the lists of n elements of S
Lists(S, n) ==
    IF n = 0 THEN {<<>>}
    ELSE {Append(l, x) : l \in Lists(S, n - 1), x \in S}

\* process_files(input_files, None) of python/quick_classifier.py is called
IdInit ==
    /\ id_files \in UNION {Lists(IdPaths, n) : n \in 1..MaxIdFiles}
    /\ id_samples = <<>>
    /\ id_pc = "loop"
    /\ BatchIdle
    /\ SimIdle
    /\ FnIdle
    /\ PgIdle
    /\ CvIdle
    /\ DpIdle
    /\ LbIdle

\* one turn of the loop of lines 108-150: the sample of the next file
IdProcess ==
    /\ id_pc = "loop"
    /\ Len(id_samples) < Len(id_files)
    /\ LET path == id_files[Len(id_samples) + 1]
       IN  id_samples' = Append(id_samples,
                                [id |-> SampleId(path),
                                 name |-> Basename(path),
                                 path |-> path])
    /\ UNCHANGED <<id_files, id_pc>>
    /\ UNCHANGED nonid

IdReturn ==
    /\ id_pc = "loop"
    /\ Len(id_samples) = Len(id_files)
    /\ id_pc' = "returned"
    /\ UNCHANGED <<id_files, id_samples>>
    /\ UNCHANGED nonid

IdNext ==
    \/ IdProcess
    \/ IdReturn

SpecSampleId == IdInit /\ [][IdNext]_<<idvars, nonid>>

\* C24: within one run, two distinct input paths never get the same id.
C24_DistinctIds ==
    \A i, j \in 1..Len(id_samples) :
        id_samples[i].path # id_samples[j].path
            => id_samples[i].id # id_samples[j].id


\* ================================================= classification vector
\* create_feature_vector of python/classify_audio.py, applied to the
\* features that extract_features produces or to any part of them: scalars
\* are numbers, 'mfcc' and 'chroma' are lists of numbers.
MaxMfccLen == 6
MaxChromaLen == 4

noncv == <<vars, simvars, fnvars, pgvars, idvars, dpvars, lbvars>>

\* the six scalar entries, in the order of lines 207-212
ClassifyScalarKeys ==
    <<"spectral_centroid", "spectral_bandwidth", "spectral_rolloff",
      "zero_crossing_rate", "rms", "tempo">>
MfccSlots == 5
ChromaSlots == 3

\* features.get(key, default)
Get(features, key, default) ==
    IF key \in DOMAIN features THEN features[key] ELSE default

\* variant: a short list is not padded.
TruncateOnly(list, n) == SubSeq(list, 1, Min(n, Len(list)))

\* list[:n] if len(list) >= n else list + [0] * (n - len(list))
PadOrTruncate(list, n) ==
    IF Len(list) >= n
    THEN SubSeq(list, 1, n)
    ELSE list \o [i \in 1..(n - Len(list)) |-> 0]

ClassifyCreateFeatureVector(features) ==
    LET feature_vector ==
            [i \in 1..Len(ClassifyScalarKeys) |->
                Get(features, ClassifyScalarKeys[i], 0)]
        mfccs == Get(features, "mfcc", <<>>)
        chroma == Get(features, "chroma", <<>>)
    IN  feature_vector \o PadOrTruncate(mfccs, MfccSlots)
                       \o PadOrTruncate(chroma, ChromaSlots)

\* sample values
ScalarSample ==
    [spectral_centroid |-> 1500, spectral_bandwidth |-> 1200,
     spectral_rolloff |-> 3000, zero_crossing_rate |-> 2, rms |-> 1,
     tempo |-> 120]
MfccValues == {-3, 7}
ChromaValues == {5}

Restrict(f, S) == [k \in S |-> f[k]]

FeatureMappings ==
    {Restrict(ScalarSample, S) @@ m @@ c :
        S \in SUBSET DOMAIN ScalarSample,
        m \in {<<>>} \cup
              {[mfcc |-> l] :
                  l \in UNION {Lists(MfccValues, n) : n \in 0..MaxMfccLen}},
        c \in {<<>>} \cup
              {[chroma |-> l] :
                  l \in UNION {Lists(ChromaValues, n) : n \in 0..MaxChromaLen}}}

CvInit ==
    /\ cv_features \in FeatureMappings
    /\ cv_vector = <<>>
    /\ cv_pc = "call"
    /\ BatchIdle
    /\ SimIdle
    /\ FnIdle
    /\ PgIdle
    /\ IdIdle
    /\ DpIdle
    /\ LbIdle

\* feature_vector = create_feature_vector(sample['features'])
CvCreate ==
    /\ cv_pc = "call"
    /\ cv_vector' = ClassifyCreateFeatureVector(cv_features)
    /\ cv_pc' = "returned"
    /\ UNCHANGED cv_features
    /\ UNCHANGED noncv

CvNext == CvCreate

SpecVector == CvInit /\ [][CvNext]_<<cvvars, noncv>>

\* C25: the vector has 14 entries: the 6 scalars (0 when absent), then the
\* first 5 of mfcc and the first 3 of chroma, each right-padded with 0 when
\* absent or short and cut when longer.
C25_FourteenSlots ==
    cv_pc = "returned" =>
        LET mfccs == Get(cv_features, "mfcc", <<>>)
            chroma == Get(cv_features, "chroma", <<>>)
        IN  /\ Len(cv_vector) = 14
            /\ \A i \in 1..6 :
                  cv_vector[i] =
                      IF ClassifyScalarKeys[i] \in DOMAIN cv_features
                      THEN cv_features[ClassifyScalarKeys[i]] ELSE 0
            /\ \A j \in 1..5 :
                  cv_vector[6 + j] = IF j <= Len(mfccs) THEN mfccs[j] ELSE 0
            /\ \A j \in 1..3 :
                  cv_vector[11 + j] = IF j <= Len(chroma) THEN chroma[j] ELSE 0

\* a mapping without tempo, with six coefficients (one is cut) and two
\* chroma entries (one slot is padded)
C25_Witness ==
    /\ cv_pc = "returned"
    /\ "tempo" \notin DOMAIN cv_features
    /\ "rms" \in DOMAIN cv_features
    /\ "mfcc" \in DOMAIN cv_features
    /\ "chroma" \in DOMAIN cv_features
    /\ Len(cv_features.mfcc) = 6
    /\ Len(cv_features.chroma) = 2
    /\ cv_vector[6] = 0
    /\ cv_vector[11] = cv_features.mfcc[5]
    /\ cv_vector[14] = 0


\* ======================================================= deep classifiers
\* One file goes through the filename stage and the feature stage of a deep
\* classifier: the loop body of process_files in python/deep_classifier.py
\* or process_single_file of trash/deep_classifier.py.  Both use the keyword
\* tables and classify_by_filename of python/quick_classifier.py unchanged.
\* Feature values are integers: energy_mean, onset_rate and avg_contrast in
\* hundredths, avg_flatness in ten-thousandths, avg_centroid and avg_rolloff
\* in Hz, the fallback values energy, brightness and roughness in tenths.

nondp == <<vars, simvars, fnvars, pgvars, idvars, cvvars, lbvars>>

DeepVariants == {"python", "trash"}

\* basic_features of trash/deep_classifier.py, returned without librosa
BasicFallback ==
    [duration |-> 0, sample_rate |-> 44100, energy |-> 5, brightness |-> 5,
     roughness |-> 3, tempo |-> 120, extraction_method |-> "basic_fallback"]

\* the dict returned by the except branch of trash/deep_classifier.py
ErrorFallback ==
    [duration |-> 0, sample_rate |-> 44100, energy |-> 5, brightness |-> 5,
     roughness |-> 3, tempo |-> 120, extraction_method |-> "error_fallback",
     error |-> "load failed"]

\* extract_audio_features(file_path): None is <<>>.
ExtractAudioFeatures(variant, librosa, load) ==
    IF variant = "python"
    THEN IF ~librosa \/ load.raises THEN None ELSE load.features
    ELSE IF ~librosa THEN BasicFallback
         ELSE IF load.raises THEN ErrorFallback
         ELSE load.features

\* the three values of determine_mood_from_features: energy in 1/200,
\* brightness in 1/5000, texture in 1/100.
MoodValues(variant, features) ==
    IF /\ variant = "trash"
       /\ "extraction_method" \in DOMAIN features
       /\ features.extraction_method = "basic_fallback"
    THEN [energy |-> Get(features, "energy", 5) * 200,
          brightness |-> Get(features, "brightness", 5) * 5000,
          texture |-> Get(features, "roughness", 3) * (-1000)]
    ELSE [energy |-> (Get(features, "energy_mean", 0) * 10)
                        + Get(features, "onset_rate", 0),
          brightness |-> (Get(features, "avg_centroid", 0) * 5)
                            + Get(features, "avg_rolloff", 0),
          texture |-> (-1 * Get(features, "avg_contrast", 0))
                         - Get(features, "avg_flatness", 0)]

\* determine_mood_from_features(features)['overall_mood'], for a non-empty
\* features dict
OverallMood(variant, features) ==
    LET v == MoodValues(variant, features)
        energy == IF v.energy < 2 * 200 THEN "chill"
                  ELSE IF v.energy < 5 * 200 THEN "moderate" ELSE "energetic"
        brightness == IF v.brightness < 3 * 5000 THEN "dark"
                      ELSE IF v.brightness < 7 * 5000 THEN "warm" ELSE "bright"
        texture == IF v.texture < (-60) * 100 THEN "rough" ELSE "smooth"
        l1 == IF energy = "chill" THEN <<"chill">> ELSE <<>>
        l2 == IF brightness = "dark"
              THEN l1 \o <<"dark">>
                      \o (IF energy = "chill" THEN <<"sad">> ELSE <<>>)
              ELSE IF brightness = "bright"
              THEN l1 \o <<"bright">>
                      \o (IF energy = "energetic" THEN <<"happy">> ELSE <<>>)
              ELSE l1
        l3 == IF energy = "energetic" /\ texture = "rough"
              THEN Append(l2, "aggressive") ELSE l2
    IN  IF l3 = <<>> THEN <<"neutral">> ELSE l3

\* classification['mood'] = overall_mood[0] when overall_mood is not empty
FinalMood(from_filename, overall_mood) ==
    IF overall_mood # <<>> THEN overall_mood[1] ELSE from_filename

\* whether the feature stage is entered and yields a features dict
FeaturesOf(variant, librosa, deep_analysis, load) ==
    IF variant = "python"
    THEN IF deep_analysis /\ librosa
         THEN ExtractAudioFeatures(variant, librosa, load) ELSE None
    ELSE IF deep_analysis
         THEN ExtractAudioFeatures(variant, librosa, load) ELSE None

\* the sample of one file
DeepSample(variant, librosa, deep_analysis, file, load) ==
    LET from_filename == ClassifyByFilename(file)
        features == FeaturesOf(variant, librosa, deep_analysis, load)
        overall_mood == IF features # None
                        THEN OverallMood(variant, features) ELSE <<>>
    IN  [success |-> TRUE,
         category |-> from_filename.type,
         subtype |-> from_filename.subtype,
         mood |-> FinalMood(from_filename.mood, overall_mood),
         has_features |-> features # None,
         overall_mood |-> overall_mood]

DeepFiles ==
    {<<"k", "i", "c", "k", "_", "0", "1", ".", "w", "a", "v">>,
     <<"l", "o", "o", "p", ".", "w", "a", "v">>,
     <<"d", "a", "r", "k", "_", "p", "a", "d", ".", "w", "a", "v">>,
     <<"B", "r", "i", "g", "h", "t", " ", "L", "e", "a", "d", ".", "w", "a", "v">>,
     <<"s", "o", "f", "t", "_", "s", "n", "a", "r", "e", ".", "w", "a", "v">>,
     <<"S", "a", "m", "p", "l", "e", "s", "/", "e", "p", "i", "c", "_", "h", "i", "t", ".", "w", "a", "v">>}

\* what librosa can measure on a file that loads
LoadedFeatures ==
    [duration : {1}, energy_mean : {5, 50, 120}, onset_rate : {0, 300},
     avg_centroid : {500, 3000, 6000}, avg_rolloff : {1000, 8000},
     avg_contrast : {2000}, avg_flatness : {100, 5000}]

Loads == {NoLoad} \cup {[raises |-> FALSE, features |-> f] : f \in LoadedFeatures}

DpInit ==
    /\ dp_variant \in DeepVariants
    /\ dp_librosa \in BOOLEAN
    /\ dp_deep_analysis \in BOOLEAN
    /\ dp_file \in DeepFiles
    /\ dp_load \in Loads
    /\ (~dp_librosa \/ ~dp_deep_analysis) => dp_load = NoLoad
    /\ dp_sample = NoSample
    /\ dp_pc = "call"
    /\ BatchIdle
    /\ SimIdle
    /\ FnIdle
    /\ PgIdle
    /\ IdIdle
    /\ CvIdle
    /\ LbIdle

DpProcess ==
    /\ dp_pc = "call"
    /\ dp_sample' = DeepSample(dp_variant, dp_librosa, dp_deep_analysis,
                               dp_file, dp_load)
    /\ dp_pc' = "returned"
    /\ UNCHANGED <<dp_variant, dp_librosa, dp_deep_analysis, dp_file, dp_load>>
    /\ UNCHANGED nondp

DpNext == DpProcess

SpecDeep == DpInit /\ [][DpNext]_<<dpvars, nondp>>

\* ---- what the claims about the deep classifiers speak of
ExtractionFailed == dp_deep_analysis /\ dp_librosa /\ dp_load.raises
FeatureRecordAvailable == dp_deep_analysis /\ dp_librosa /\ ~dp_load.raises
FilenameMood == ClassifyByFilename(dp_file).mood

\* C22: when feature extraction fails, the sample is still a success, its
\* category and subtype are the filename stage's, and a file name without a
\* mood keyword gets the mood 'neutral'.
C22_ExtractionFailure ==
    (dp_pc = "returned" /\ ExtractionFailed) =>
        /\ dp_sample.success
        /\ dp_sample.category = ClassifyByFilename(dp_file).type
        /\ dp_sample.subtype = ClassifyByFilename(dp_file).subtype
        /\ FilenameMood = "neutral" => dp_sample.mood = "neutral"

\* C23: when the file name holds a mood keyword and a feature record is
\* available, the reported mood is the filename's.
C23_FilenameMoodWins ==
    (dp_pc = "returned" /\ FeatureRecordAvailable /\ FilenameMood # "neutral")
        => dp_sample.mood = FilenameMood


\* ===================================================== librosa classifier
\* analyze_and_classify_sample of attached_assets/librosa_classifier.py for
\* one file: the filename stage, the feature-based categories and the mood.
\* Feature values are integers: ratios, energies, times, rates, flatness,
\* contrast and roughness in thousandths, avg_centroid in Hz.  The mood and
\* genre hints of the filename stage are copied to the result untouched and
\* are left out.

nonlb == <<vars, simvars, fnvars, pgvars, idvars, cvvars, dpvars>>

Has(features, key) == key \in DOMAIN features

LIBROSA_FILENAME_RULES ==
    <<[name |-> "kick", type |-> "percussion",
       keywords |-> <<<<"k", "i", "c", "k">>,
                      <<"b", "a", "s", "s", " ", "d", "r", "u", "m">>,
                      <<"b", "d">>,
                      <<"8", "0", "8">>>>],
      [name |-> "snare", type |-> "percussion",
       keywords |-> <<<<"s", "n", "a", "r", "e">>,
                      <<"s", "d">>>>],
      [name |-> "hi_hat_cymbal", type |-> "percussion",
       keywords |-> <<<<"h", "a", "t">>,
                      <<"h", "h">>,
                      <<"h", "i", "-", "h", "a", "t">>,
                      <<"h", "i", "h", "a", "t">>,
                      <<"c", "y", "m", "b", "a", "l">>,
                      <<"c", "r", "a", "s", "h">>,
                      <<"r", "i", "d", "e">>>>],
      [name |-> "tom", type |-> "percussion",
       keywords |-> <<<<"t", "o", "m">>,
                      <<"f", "l", "o", "o", "r">>,
                      <<"r", "a", "c", "k">>>>],
      [name |-> "clap", type |-> "percussion",
       keywords |-> <<<<"c", "l", "a", "p">>,
                      <<"h", "a", "n", "d", "c", "l", "a", "p">>>>],
      [name |-> "other_percussion", type |-> "percussion",
       keywords |-> <<<<"p", "e", "r", "c">>,
                      <<"d", "r", "u", "m">>,
                      <<"p", "e", "r", "c", "u", "s", "s", "i", "o", "n">>>>],
      [name |-> "808_bass", type |-> "bass",
       keywords |-> <<<<"8", "0", "8">>>>],
      [name |-> "other_bass", type |-> "bass",
       keywords |-> <<<<"b", "a", "s", "s">>,
                      <<"s", "u", "b">>>>],
      [name |-> "strings_pad", type |-> "pad",
       keywords |-> <<<<"p", "a", "d">>,
                      <<"s", "t", "r", "i", "n", "g">>,
                      <<"s", "t", "r", "i", "n", "g", "s">>,
                      <<"a", "m", "b", "i", "e", "n", "t">>,
                      <<"a", "t", "m", "o">>,
                      <<"a", "t", "m", "o", "s", "p", "h", "e", "r", "e">>,
                      <<"c", "h", "o", "r", "d">>>>],
      [name |-> "synth_lead", type |-> "lead",
       keywords |-> <<<<"l", "e", "a", "d">>,
                      <<"s", "y", "n", "t", "h">>,
                      <<"m", "e", "l", "o", "d", "y">>,
                      <<"a", "r", "p">>,
                      <<"p", "l", "u", "c", "k">>>>],
      [name |-> "effect", type |-> "fx",
       keywords |-> <<<<"f", "x">>,
                      <<"e", "f", "f", "e", "c", "t">>,
                      <<"g", "l", "i", "t", "c", "h">>,
                      <<"t", "r", "a", "n", "s", "i", "t", "i", "o", "n">>,
                      <<"r", "i", "s", "e", "r">>,
                      <<"s", "w", "e", "e", "p">>,
                      <<"i", "m", "p", "a", "c", "t">>,
                      <<"w", "h", "o", "o", "s", "h">>>>],
      [name |-> "vocal", type |-> "vocal",
       keywords |-> <<<<"v", "o", "c", "a", "l">>,
                      <<"v", "o", "x">>,
                      <<"v", "o", "i", "c", "e">>>>]>>

LibrosaFiles ==
    {<<"k", "i", "c", "k", "_", "h", "a", "r", "d", ".", "w", "a", "v">>,
     <<"S", "n", "a", "r", "e", " ", "2", ".", "w", "a", "v">>,
     <<"t", "e", "x", "t", "u", "r", "e", "_", "0", "1", ".", "w", "a", "v">>,
     <<"s", "u", "b", "_", "b", "a", "s", "s", ".", "w", "a", "v">>,
     <<"8", "0", "8", "_", "l", "o", "n", "g", ".", "w", "a", "v">>,
     <<"L", "e", "a", "d", "s", "/", "r", "e", "c", "o", "r", "d", "i", "n", "g", ".", "w", "a", "v">>}

RECURSIVE FirstRule(_, _)
\* the if/elif chain of classify_by_filename: the first rule with a word in
\* the file name, 0 when there is none.
FirstRule(filename, i) ==
    IF i > Len(LIBROSA_FILENAME_RULES) THEN 0
    ELSE IF AnyKeyword(LIBROSA_FILENAME_RULES[i].keywords, filename) THEN i
    ELSE FirstRule(filename, i + 1)

\* classify_by_filename(file_path), type and subtype
LibrosaClassifyByFilename(path) ==
    LET r == FirstRule(LowerStr(Basename(path)), 1)
    IN  IF r = 0 THEN [type |-> "other", subtype |-> "other"]
        ELSE [type |-> LIBROSA_FILENAME_RULES[r].type,
              subtype |-> LIBROSA_FILENAME_RULES[r].name]

Traditional(type, subtype) == [raises |-> FALSE, type |-> type, subtype |-> subtype]
TraditionalRaises == [raises |-> TRUE, type |-> "other", subtype |-> "other"]

\* classify_by_traditional_categories(features), features not None
ClassifyByTraditionalCategories(features) ==
    IF ~Has(features, "duration") THEN Traditional("other", "other")
    ELSE IF ~(/\ Has(features, "avg_centroid")
              /\ Has(features, "energy_mean")
              /\ Has(features, "bass_ratio")
              /\ Has(features, "mid_ratio")
              /\ Has(features, "high_ratio"))
    THEN Traditional("other", "other")
    ELSE IF /\ Has(features, "has_transient")
            /\ features.has_transient
            /\ Has(features, "onset_rate")
            /\ features.onset_rate > 1000
    THEN IF features.bass_ratio > 400 /\ features.avg_centroid < 500
         THEN Traditional("percussion", "kick")
         ELSE IF /\ features.mid_ratio > 400
                 /\ Get(features, "attack_time", 1000) < 50
         THEN Traditional("percussion", "snare")
         ELSE IF features.high_ratio > 400 /\ features.avg_centroid > 5000
         THEN Traditional("percussion", "hi_hat_cymbal")
         ELSE Traditional("percussion", "other_percussion")
    ELSE IF features.bass_ratio > 500 /\ features.avg_centroid < 500
    THEN IF Get(features, "is_sustained", FALSE) /\ features.duration > 800
         THEN Traditional("bass", "808_bass")
         ELSE Traditional("bass", "other_bass")
    ELSE IF /\ Get(features, "is_sustained", FALSE)
            /\ features.duration > 1500
            /\ Get(features, "avg_zcr", 1000) < 200
    THEN Traditional("pad", "strings_pad")
    ELSE IF features.mid_ratio > 400 /\ ~Has(features, "upper_mid_ratio")
    THEN TraditionalRaises
    ELSE IF features.mid_ratio > 400 /\ features.upper_mid_ratio > 200
    THEN Traditional("lead", "synth_lead")
    ELSE IF \/ Get(features, "avg_flatness", 0) > 300
            \/ Get(features, "avg_zcr", 0) > 300
            \/ features.high_ratio > 500
    THEN Traditional("fx", "effect")
    ELSE Traditional("other", "other")

\* ---- classify_by_mood: a score is the pair <<sum, count>>, the sum in
\* 1/10000 for the energy and in 1/1000 for the others; a normalized value
\* is a fraction <<numerator, denominator>> in the same unit.
AddTerm(score, present, term) ==
    IF present THEN <<score[1] + term, score[2] + 1>> ELSE score

\* min(score / count, 10), or 5 without any term
Normalized(score, unit) ==
    IF score[2] > 0
    THEN IF score[1] > 10 * unit * score[2] THEN <<10 * unit, 1>> ELSE score
    ELSE <<5 * unit, 1>>

\* max(value, 0)
NotBelowZero(value) == IF value[1] < 0 THEN <<0, 1>> ELSE value

\* value > tenths / 10 and value < tenths / 10
Above(value, tenths, unit) == value[1] * 10 > tenths * unit * value[2]
Below(value, tenths, unit) == value[1] * 10 < tenths * unit * value[2]

EnergyUnit == 10000
MoodUnit == 1000

NormalizedEnergy(features) ==
    LET s1 == AddTerm(<<0, 0>>, Has(features, "energy_mean"),
                      100 * Get(features, "energy_mean", 0))
        s2 == AddTerm(s1, Has(features, "energy_dynamic_range"),
                      10 * Min(Get(features, "energy_dynamic_range", 0), 5000))
        s3 == AddTerm(s2, Has(features, "attack_time"),
                      30 * Max(0, 1000 - (20 * Get(features, "attack_time", 0))))
        s4 == AddTerm(s3, Has(features, "onset_rate"),
                      10 * Min(Get(features, "onset_rate", 0), 5000))
        s5 == AddTerm(s4, Has(features, "avg_zcr"),
                      300 * Get(features, "avg_zcr", 0))
        s6 == AddTerm(s5, Has(features, "avg_centroid"),
                      3 * Min(Get(features, "avg_centroid", 0), 10000))
    IN  Normalized(s6, EnergyUnit)

\* variant: the bins include their lower bounds.
EnergyBinInclusive(value) ==
    IF ~Below(value, 75, EnergyUnit) THEN "aggressive"
    ELSE IF ~Below(value, 50, EnergyUnit) THEN "energetic"
    ELSE IF ~Below(value, 25, EnergyUnit) THEN "moderate"
    ELSE "chill"

EnergyBin(value) ==
    IF Above(value, 75, EnergyUnit) THEN "aggressive"
    ELSE IF Above(value, 50, EnergyUnit) THEN "energetic"
    ELSE IF Above(value, 25, EnergyUnit) THEN "moderate"
    ELSE "chill"

NormalizedBrightness(features) ==
    LET s1 == AddTerm(<<0, 0>>, Has(features, "avg_centroid"),
                      Min(Get(features, "avg_centroid", 0), 10000))
        s2 == AddTerm(s1, Has(features, "high_ratio")
                              /\ Has(features, "upper_mid_ratio"),
                      10 * (Get(features, "high_ratio", 0)
                               + Get(features, "upper_mid_ratio", 0)))
        s3 == AddTerm(s2, Has(features, "bass_ratio")
                              /\ Has(features, "sub_bass_ratio"),
                      (-5) * (Get(features, "bass_ratio", 0)
                                 + Get(features, "sub_bass_ratio", 0)))
    IN  IF s3[2] > 0 THEN NotBelowZero(Normalized(s3, MoodUnit))
        ELSE Normalized(s3, MoodUnit)

BrightnessBin(value) ==
    IF Above(value, 75, MoodUnit) THEN "bright"
    ELSE IF Above(value, 50, MoodUnit) THEN "balanced"
    ELSE IF Above(value, 25, MoodUnit) THEN "warm"
    ELSE "dark"

NormalizedTexture(features) ==
    LET s1 == AddTerm(<<0, 0>>, Has(features, "avg_flatness"),
                      5 * (1000 - Get(features, "avg_flatness", 0)))
        s2 == AddTerm(s1, Has(features, "avg_zcr"),
                      20 * Get(features, "avg_zcr", 0))
        s3 == AddTerm(s2, Has(features, "roughness"),
                      10 * Get(features, "roughness", 0))
    IN  Normalized(s3, MoodUnit)

TextureBin(value) ==
    IF Above(value, 75, MoodUnit) THEN "rough"
    ELSE IF Above(value, 50, MoodUnit) THEN "textured"
    ELSE IF Above(value, 25, MoodUnit) THEN "balanced"
    ELSE "smooth"

NormalizedWeight(features) ==
    LET s1 == AddTerm(<<0, 0>>, Has(features, "bass_ratio")
                                    /\ Has(features, "sub_bass_ratio"),
                      10 * (Get(features, "bass_ratio", 0)
                               + (2 * Get(features, "sub_bass_ratio", 0))))
        s2 == AddTerm(s1, Has(features, "energy_mean"),
                      5 * Get(features, "energy_mean", 0))
        s3 == AddTerm(s2, Has(features, "is_sustained"),
                      IF Get(features, "is_sustained", FALSE) THEN 3000 ELSE 0)
    IN  Normalized(s3, MoodUnit)

WeightBin(value) ==
    IF Above(value, 75, MoodUnit) THEN "heavy"
    ELSE IF Above(value, 50, MoodUnit) THEN "solid"
    ELSE IF Above(value, 25, MoodUnit) THEN "balanced"
    ELSE "light"

AppendIf(labels, condition, label) ==
    IF condition THEN Append(labels, label) ELSE labels

\* the rule table of lines 622-662
RuleLabels(features, m) ==
    LET l1 == AppendIf(<<>>, m.energy = "aggressive"
                                /\ m.texture \in {"rough", "textured"},
                       "aggressive")
        l2 == AppendIf(l1, m.energy \in {"chill", "moderate"}
                              /\ m.texture \in {"smooth", "balanced"}, "chill")
        l3 == AppendIf(l2, m.brightness \in {"dark", "warm"}
                              /\ Below(m.brightness_value, 40, MoodUnit), "dark")
        l4 == AppendIf(l3, m.brightness = "bright"
                              /\ Above(m.brightness_value, 60, MoodUnit),
                       "bright")
        l5 == AppendIf(l4, m.weight = "heavy"
                              /\ Above(m.weight_value, 70, MoodUnit), "heavy")
        l6 == AppendIf(l5, /\ m.energy = "chill"
                           /\ m.texture \in {"smooth", "balanced"}
                           /\ m.brightness \in {"bright", "balanced"},
                       "ethereal")
        l7 == AppendIf(l6, /\ m.energy \in {"energetic", "aggressive"}
                           /\ m.weight \in {"heavy", "solid"}
                           /\ Get(features, "duration", 0) > 2000, "epic")
        l8 == AppendIf(l7, /\ m.energy = "chill"
                           /\ m.brightness \in {"dark", "warm"}
                           /\ Below(m.brightness_value, 35, MoodUnit), "sad")
    IN  AppendIf(l8, /\ Has(features, "avg_zcr")
                     /\ Get(features, "avg_zcr", 0) > 200
                     /\ m.brightness \in {"dark", "warm"}, "tense")

\* the fallback of lines 665-675
Quadrant(energy_value, brightness_value) ==
    IF Above(energy_value, 50, EnergyUnit)
    THEN IF Above(brightness_value, 50, MoodUnit) THEN "vibrant" ELSE "intense"
    ELSE IF Above(brightness_value, 50, MoodUnit) THEN "airy" ELSE "reserved"

OverallLabels(features, m) ==
    IF RuleLabels(features, m) = <<>>
    THEN <<Quadrant(m.energy_value, m.brightness_value)>>
    ELSE RuleLabels(features, m)

NoMood == [empty |-> TRUE]

\* classify_by_mood(features), features not None
ClassifyByMood(features) ==
    IF ~Has(features, "duration") THEN NoMood
    ELSE LET m == [empty |-> FALSE,
                   energy |-> EnergyBin(NormalizedEnergy(features)),
                   energy_value |-> NormalizedEnergy(features),
                   brightness |-> BrightnessBin(NormalizedBrightness(features)),
                   brightness_value |-> NormalizedBrightness(features),
                   texture |-> TextureBin(NormalizedTexture(features)),
                   texture_value |-> NormalizedTexture(features),
                   weight |-> WeightBin(NormalizedWeight(features)),
                   weight_value |-> NormalizedWeight(features)]
         IN  m @@ [overall_mood |-> OverallLabels(features, m)]

\* variant: the feature-based type replaces any type.
OverridesAlways(from_filename, trad) == trad.type # "other"

\* line 756: the feature-based type replaces only the type 'other'
Overrides(from_filename, trad) ==
    trad.type # "other" /\ from_filename.type = "other"

\* analyze_and_classify_sample(file_path): type, subtype and method of the
\* classification, and the two entries of all_classifications.
AnalyzeAndClassifySample(file, features) ==
    LET from_filename == LibrosaClassifyByFilename(file)
        trad == IF features # None
                THEN ClassifyByTraditionalCategories(features)
                ELSE Traditional("other", "other")
        mood == IF features # None THEN ClassifyByMood(features) ELSE NoMood
    IN  IF trad.raises
        THEN [raises |-> TRUE, type |-> "other", subtype |-> "other",
              method |-> "none", traditional |-> trad, mood |-> NoMood]
        ELSE IF features # None /\ Overrides(from_filename, trad)
        THEN [raises |-> FALSE, type |-> trad.type, subtype |-> trad.subtype,
              method |-> "audio_features", traditional |-> trad, mood |-> mood]
        ELSE [raises |-> FALSE, type |-> from_filename.type,
              subtype |-> from_filename.subtype,
              method |-> IF from_filename.type # "other"
                         THEN "filename" ELSE "default",
              traditional |-> trad, mood |-> mood]

\* ---- the feature records extract_audio_features can return: each group
\* of keys is written by one try block and is missing when that block fails.
EnergyGroup ==
    {<<>>, [energy_mean |-> 50, energy_dynamic_range |-> 2000],
     [energy_mean |-> 250, energy_dynamic_range |-> 2000],
     [energy_mean |-> 900, energy_dynamic_range |-> 6000]}
SpectralGroup ==
    {<<>>,
     [avg_centroid |-> 300, avg_flatness |-> 10, avg_contrast |-> 200],
     [avg_centroid |-> 6000, avg_flatness |-> 400, avg_contrast |-> 20000],
     [avg_centroid |-> 12000, avg_flatness |-> 10, avg_contrast |-> 200]}
RhythmGroup == {<<>>, [onset_rate |-> 500], [onset_rate |-> 8000]}
EnvelopeGroup ==
    {[attack_time |-> 0, has_transient |-> FALSE, is_sustained |-> FALSE],
     [attack_time |-> 10, has_transient |-> TRUE],
     [attack_time |-> 10, has_transient |-> TRUE, is_sustained |-> TRUE],
     [attack_time |-> 200, has_transient |-> FALSE, is_sustained |-> TRUE]}
BandGroup ==
    {<<>>,
     [sub_bass_ratio |-> 300, bass_ratio |-> 550, low_mid_ratio |-> 50,
      mid_ratio |-> 50, upper_mid_ratio |-> 30, high_ratio |-> 20],
     [sub_bass_ratio |-> 0, bass_ratio |-> 50, low_mid_ratio |-> 50,
      mid_ratio |-> 450, upper_mid_ratio |-> 300, high_ratio |-> 150],
     [sub_bass_ratio |-> 0, bass_ratio |-> 20, low_mid_ratio |-> 30,
      mid_ratio |-> 100, upper_mid_ratio |-> 250, high_ratio |-> 600]}
ZcrGroup == {<<>>, [avg_zcr |-> 50], [avg_zcr |-> 600]}
Durations == {300, 3000}

\* line 258: roughness = 1 - avg_contrast, when the contrast was measured
\* and the harmonic-percussive separation did not fail
WithRoughness(features, separated) ==
    IF separated /\ Has(features, "avg_contrast")
    THEN features @@ [roughness |-> 1000 - features.avg_contrast]
    ELSE features

FeatureRecords ==
    {WithRoughness([duration |-> d] @@ e @@ s @@ r @@ v @@ b @@ z, h) :
        d \in Durations, e \in EnergyGroup, s \in SpectralGroup,
        r \in RhythmGroup, v \in EnvelopeGroup, b \in BandGroup,
        z \in ZcrGroup, h \in BOOLEAN}

NoAnalysis == [raises |-> FALSE]

LbInit ==
    /\ lb_file \in LibrosaFiles
    /\ lb_features \in {None} \cup FeatureRecords
    /\ lb_result = NoAnalysis
    /\ lb_pc = "call"
    /\ BatchIdle
    /\ SimIdle
    /\ FnIdle
    /\ PgIdle
    /\ IdIdle
    /\ CvIdle
    /\ DpIdle

LbAnalyze ==
    /\ lb_pc = "call"
    /\ lb_result' = AnalyzeAndClassifySample(lb_file, lb_features)
    /\ lb_pc' = "returned"
    /\ UNCHANGED <<lb_file, lb_features>>
    /\ UNCHANGED nonlb

LbNext == LbAnalyze

SpecLibrosa == LbInit /\ [][LbNext]_<<lbvars, nonlb>>

\* ---- what the claims about the librosa classifier speak of
FromFilename == LibrosaClassifyByFilename(lb_file)
TableLabels ==
    {"aggressive", "chill", "dark", "bright", "heavy", "ethereal", "epic",
     "sad", "tense"}
FallbackLabels == {"vibrant", "intense", "airy", "reserved"}
Labels(l) == {l[i] : i \in 1..Len(l)}

\* C21: a filename type other than 'other' is final for every feature
\* record; type and subtype come from the features only when the filename
\* stage gave 'other' and the feature stage gave another type.
C21_FilenamePriority ==
    lb_pc = "returned" =>
        /\ ~lb_result.raises
        /\ FromFilename.type # "other" =>
              /\ lb_result.type = FromFilename.type
              /\ lb_result.subtype = FromFilename.subtype
        /\ lb_result.method = "audio_features" <=>
              /\ FromFilename.type = "other"
              /\ lb_features # None
              /\ lb_result.traditional.type # "other"
        /\ lb_result.method = "audio_features" =>
              /\ lb_result.type = lb_result.traditional.type
              /\ lb_result.subtype = lb_result.traditional.subtype
        /\ lb_result.method # "audio_features" =>
              /\ lb_result.type = FromFilename.type
              /\ lb_result.subtype = FromFilename.subtype

\* kick_hard.wav stays percussion/kick although its features say bass
C21_Witness ==
    /\ lb_pc = "returned"
    /\ FromFilename.type = "percussion"
    /\ lb_features # None
    /\ lb_result.traditional.type = "bass"
    /\ lb_result.type = "percussion"
    /\ lb_result.subtype = "kick"
    /\ lb_result.method = "filename"

\* C28: the energy bins are >7.5 aggressive, >5 energetic, >2.5 moderate,
\* else chill; 'aggressive' is an overall mood exactly when the energy bin
\* is aggressive and the texture bin is rough or textured; without a label
\* of the rule table the overall mood is the one fallback label of the
\* energy-by-brightness quadrant; it is never empty.
C28_MoodBins ==
    (lb_pc = "returned" /\ lb_features # None /\ ~lb_result.raises) =>
        LET m == lb_result.mood
            e == NormalizedEnergy(lb_features)
            b == NormalizedBrightness(lb_features)
        IN  /\ ~m.empty
            /\ m.energy = "aggressive" <=> e[1] * 10 > 75 * EnergyUnit * e[2]
            /\ m.energy = "energetic" <=>
                  /\ e[1] * 10 <= 75 * EnergyUnit * e[2]
                  /\ e[1] > 5 * EnergyUnit * e[2]
            /\ m.energy = "moderate" <=>
                  /\ e[1] <= 5 * EnergyUnit * e[2]
                  /\ e[1] * 10 > 25 * EnergyUnit * e[2]
            /\ m.energy = "chill" <=> e[1] * 10 <= 25 * EnergyUnit * e[2]
            /\ "aggressive" \in Labels(m.overall_mood) <=>
                  /\ m.energy = "aggressive"
                  /\ m.texture \in {"rough", "textured"}
            /\ m.overall_mood # <<>>
            /\ Labels(m.overall_mood) \subseteq TableLabels \cup FallbackLabels
            /\ Labels(m.overall_mood) \cap TableLabels = {} =>
                  m.overall_mood =
                      << IF e[1] > 5 * EnergyUnit * e[2]
                         THEN IF b[1] > 5 * MoodUnit * b[2]
                              THEN "vibrant" ELSE "intense"
                         ELSE IF b[1] > 5 * MoodUnit * b[2]
                              THEN "airy" ELSE "reserved" >>
            /\ Labels(m.overall_mood) \cap FallbackLabels # {} =>
                  Len(m.overall_mood) = 1

\* an aggressive record, and the bin is in the overall mood
C28_Witness ==
    /\ lb_pc = "returned"
    /\ lb_features # None
    /\ ~lb_result.raises
    /\ lb_result.mood.energy = "aggressive"
    /\ lb_result.mood.texture = "rough"
    /\ "aggressive" \in Labels(lb_result.mood.overall_mood)

\* a record that matches no rule of the table gets the fallback label
C28_FallbackWitness ==
    /\ lb_pc = "returned"
    /\ lb_features # None
    /\ ~lb_result.raises
    /\ lb_result.mood.overall_mood \in {<<"vibrant">>, <<"intense">>}

\* an energy of exactly 2.5 is still chill
C28_BoundaryWitness ==
    /\ lb_pc = "returned"
    /\ lb_features # None
    /\ NormalizedEnergy(lb_features)[1] * 10
           = 25 * EnergyUnit * NormalizedEnergy(lb_features)[2]
    /\ lb_result.mood.energy = "chill"

====
